---------------------------- MODULE Spec2Model ----------------------------
(***************************************************************************)
(* A model of the analytics core of the ad-account audit:                  *)
(*   - EnhancedAdAccountAudit.run_audit and EnhancedAdAccountAnalyzer      *)
(*     .analyze (src/enhanced_audit.py, src/analysis/enhanced_analyzer.py) *)
(*   - _prioritize_recommendations (the Recommendation Synthesizer)        *)
(*   - detect_ad_fatigue (src/processing/enhanced_fatigue_detection.py)    *)
(*   - AudienceTargetingAnalyzer (src/processing/                          *)
(*     audience_targeting_analyzer.py)                                     *)
(*   - BudgetOptimizer (src/processing/budget_optimizer.py)                *)
(*   - calculate_performance_metrics (src/processing/metrics.py)           *)
(*                                                                         *)
(* Floating point values are kept as scaled integers; every scale is named *)
(* where it is used.  Each component has its own specification over the    *)
(* shared variables: Spec (the audit), SpecAnalyze, SpecPrioritize,        *)
(* SpecFatigue, SpecBatch, SpecAudience, SpecScore, SpecBudget,            *)
(* SpecMetrics, SpecImprove, SpecCache.                                    *)
(***************************************************************************)
EXTENDS Integers, Sequences, FiniteSets, TLC

VARIABLES
    \* ---- the audit (run_audit / analyze)
    pc,             \* position of the audit call: "called", "returned", "raised"
    call,           \* the arguments of run_audit, account_data as it is left
    outcome,        \* what the caller of run_audit observes
    cache,          \* the names of the files in cache_dir
    \* ---- _prioritize_recommendations
    recsIn,         \* the merged recommendation list handed to the synthesizer
    recsOut,        \* [done, recs]: the prioritized list once returned
    \* ---- detect_ad_fatigue
    adData,         \* ad_daily_data: the rows of one ad and its columns
    fatigue,        \* the results dict of detect_ad_fatigue
    \* ---- AudienceTargetingAnalyzer
    insights,       \* the insight rows handed to the analyzer
    audience,       \* the analysis result
    \* ---- BudgetOptimizer._calculate_efficiency_score
    metrics,        \* the metrics dict (index values, 0 = absent / NaN / <= 0)
    score,          \* [done, value]: the efficiency score, times 20000
    \* ---- BudgetOptimizer
    optimizer,      \* the BudgetOptimizer object: its thresholds once constructed
    budgetIn,       \* the frames handed to BudgetOptimizer.analyze
    budgetOut,      \* the results dict of BudgetOptimizer.analyze
    \* ---- derived metrics (cpa, ctr, cpm, ...)
    totals,         \* the summed counts of one entity or aggregate
    derived,        \* the derived metrics one place of the core emits for it
    \* ---- batch_fatigue_analysis / _analyze_ad_fatigue
    batchAds,       \* the ads of the daily insights, one entry per ad_id
    batchOut,       \* what _analyze_ad_fatigue returns
    \* ---- _calculate_improvement_potential
    improveIn,      \* [recommendations, total_spend]
    improvement,    \* [done, num, den]: the percentage returned, as a fraction
    \* ---- EnhancedAdAccountAnalyzer.analyze on its own
    analysisIn,     \* [made, account_data, platform]
    analysisOut,    \* [done, ...]: the results dict analyze returns
    \* ---- the cache directory: _cache_analysis_results / load_cached_analysis
    cacheFiles,     \* the files of cache_dir: [name, mtime, day, text]
    cacheLog,       \* the cached audits so far: [client_name, platform, day, analysis]
    today,          \* the current day
    loaded          \* the last call of load_cached_analysis and what it returned

auditVars == <<pc, call, outcome, cache>>
prioVars == <<recsIn, recsOut>>
fatigueVars == <<adData, fatigue>>
audienceVars == <<insights, audience>>
scoreVars == <<metrics, score>>
budgetVars == <<optimizer, budgetIn, budgetOut>>
metricVars == <<totals, derived>>
batchVars == <<batchAds, batchOut>>
improveVars == <<improveIn, improvement>>
analysisVars == <<analysisIn, analysisOut>>
cacheVars == <<cacheFiles, cacheLog, today, loaded>>
vars == <<pc, call, outcome, cache, recsIn, recsOut, adData, fatigue,
          insights, audience, metrics, score, optimizer, budgetIn, budgetOut,
          totals, derived, batchAds, batchOut, improveIn, improvement, analysisIn, analysisOut,
          cacheFiles, cacheLog, today, loaded>>

None == "none"

Min(a, b) == IF a <= b THEN a ELSE b
Max(a, b) == IF a >= b THEN a ELSE b
Abs(a) == IF a < 0 THEN -a ELSE a

RECURSIVE SeqSum(_)
SeqSum(s) == IF s = <<>> THEN 0 ELSE Head(s) + SeqSum(Tail(s))

(***************************************************************************)
(* Recommendation Synthesizer: _prioritize_recommendations                 *)
(* A recommendation is [type, severity, potential_savings]; savings are    *)
(* whole currency units.  priority_score is kept times 200:                *)
(*   base * multiplier * (1 + min(savings/100, 2.0))                       *)
(*     = base * (mult2/2) * ((100 + min(savings, 200)) / 100).             *)
(***************************************************************************)

\* type_priority.get(type, 50)
TypePriority(type) ==
    CASE type = "budget_allocation_imbalance" -> 100
      [] type = "campaign_budget_inefficiency" -> 90
      [] type = "adset_budget_inefficiency" -> 80
      [] type = "ad_fatigue" -> 70
      [] type = "cross_segment_conversion_rate_optimization" -> 65
      [] type = "cross_segment_cpa_optimization" -> 65
      [] type = "age_conversion_rate_optimization" -> 60
      [] type = "gender_conversion_rate_optimization" -> 60
      [] type = "device_conversion_rate_optimization" -> 55
      [] type = "ad_performance_inefficiency" -> 50
      [] type = "bottom_creative_pausing" -> 45
      [] type = "top_creative_scaling" -> 40
      [] type = "ctr_trend" -> 30
      [] type = "cpa_trend" -> 35
      [] OTHER -> 50

\* the multipliers with 'high' counted as 'medium'
SeverityMultiplier2Halved(severity) ==
    CASE severity = "high" -> 2
      [] severity = "medium" -> 2
      [] severity = "low" -> 1
      [] OTHER -> 2

\* severity_multiplier.get(severity, 1.0), times 2
SeverityMultiplier2(severity) ==
    CASE severity = "high" -> 3
      [] severity = "medium" -> 2
      [] severity = "low" -> 1
      [] OTHER -> 2

\* the savings factor without its cap
SavingsFactor100Uncapped(savings) == savings

\* min(savings / 100, 2.0), times 100
SavingsFactor100(savings) == Min(savings, 200)

\* base_priority * multiplier * (1 + savings_factor), times 200
PriorityScore200(rec) ==
    TypePriority(rec.type) * SeverityMultiplier2(rec.severity)
        * (100 + SavingsFactor100(rec.potential_savings))

\* rec['priority_score'] = priority_score: the dict keeps its other keys,
\* among them the ad_id of a recommendation about an ad
Scored(rec) ==
    IF "ad_id" \in DOMAIN rec
    THEN [type |-> rec.type, ad_id |-> rec.ad_id, severity |-> rec.severity,
          potential_savings |-> rec.potential_savings,
          priority_score |-> PriorityScore200(rec)]
    ELSE [type |-> rec.type, severity |-> rec.severity,
          potential_savings |-> rec.potential_savings,
          priority_score |-> PriorityScore200(rec)]

\* sorted(..., reverse=True) is stable: an element goes after every element
\* whose key is not smaller.
RECURSIVE InsertByScore(_, _)
InsertByScore(sorted, rec) ==
    IF sorted = <<>> THEN <<rec>>
    ELSE IF Head(sorted).priority_score >= rec.priority_score
         THEN <<Head(sorted)>> \o InsertByScore(Tail(sorted), rec)
         ELSE <<rec>> \o sorted

\* the list left in the order it was merged in
SortByScoreUnsorted(recs) == recs

RECURSIVE SortByScore(_)
SortByScore(recs) ==
    IF recs = <<>> THEN <<>>
    ELSE InsertByScore(SortByScore(SubSeq(recs, 1, Len(recs) - 1)),
                       recs[Len(recs)])

PrioritizeRecommendations(recs) ==
    IF recs = <<>> THEN <<>>
    ELSE SortByScore([i \in 1..Len(recs) |-> Scored(recs[i])])

(***************************************************************************)
(* SpecPrioritize: _prioritize_recommendations applied to a bounded list.  *)
(***************************************************************************)

MaxRecs == 2

RecTypes == {"ad_fatigue", "gender_ctr_optimization"}
RecSeverities == {"high", "medium", "low", "severe"}
RecSavings == {-150, 0, 150, 200, 300}

RecUniverse ==
    [type : RecTypes, severity : RecSeverities, potential_savings : RecSavings]

RecLists == UNION {[1..n -> RecUniverse] : n \in 0..MaxRecs}

\* recommendations that name the ad they are about
AdRecs ==
    [type : {"ad_fatigue", "bottom_creative_pausing"}, ad_id : {"ad1", "ad2"},
     severity : {"medium"}, potential_savings : {0, 150}]

AdRecLists == UNION {[1..n -> AdRecs] : n \in 1..MaxRecs}

IdleAudit ==
    /\ pc = "idle" /\ call = [made |-> FALSE]
    /\ outcome = [kind |-> "none"] /\ cache = {}
IdlePrio == recsIn = <<>> /\ recsOut = [done |-> FALSE, recs |-> <<>>]
IdleFatigue == adData = None /\ fatigue = [done |-> FALSE]
IdleAudience ==
    /\ insights = [cols |-> {}, grouped |-> FALSE, rows |-> <<>>]
    /\ audience = [done |-> FALSE]
IdleScore == metrics = None /\ score = [done |-> FALSE, value |-> 0]
IdleBudget ==
    /\ optimizer = [constructed |-> FALSE]
    /\ budgetIn = [campaigns |-> <<>>, ad_sets |-> <<>>, insights |-> <<>>]
    /\ budgetOut = [done |-> FALSE]
IdleMetrics == totals = None /\ derived = [done |-> FALSE]
IdleBatch == batchAds = <<>> /\ batchOut = [done |-> FALSE]
IdleImprove ==
    /\ improveIn = [recommendations |-> <<>>, total_spend |-> 0]
    /\ improvement = [done |-> FALSE]
IdleAnalysis == analysisIn = [made |-> FALSE] /\ analysisOut = [done |-> FALSE]
IdleCache ==
    /\ cacheFiles = {} /\ cacheLog = <<>> /\ today = 0
    /\ loaded = [done |-> FALSE]

InitPrioritize ==
    /\ recsIn \in RecLists \cup AdRecLists
    /\ recsOut = [done |-> FALSE, recs |-> <<>>]
    /\ IdleAudit /\ IdleFatigue /\ IdleAudience /\ IdleScore
    /\ IdleBudget /\ IdleMetrics /\ IdleBatch /\ IdleImprove /\ IdleAnalysis /\ IdleCache

Prioritize ==
    /\ ~recsOut.done
    /\ recsOut' = [done |-> TRUE, recs |-> PrioritizeRecommendations(recsIn)]
    /\ UNCHANGED <<recsIn, auditVars, fatigueVars, audienceVars, scoreVars>>
    /\ UNCHANGED <<budgetVars, metricVars, batchVars, improveVars, analysisVars, cacheVars>>

NextPrioritize == Prioritize

SpecPrioritize == InitPrioritize /\ [][NextPrioritize]_vars

\* C9 (as claimed): of two recommendations of identical type and severity the
\* one with the larger potential_savings has the strictly larger
\* priority_score.
C9_StrictlyIncreasing ==
    recsOut.done =>
        \A i, j \in 1..Len(recsOut.recs) :
            (/\ recsOut.recs[i].type = recsOut.recs[j].type
             /\ recsOut.recs[i].severity = recsOut.recs[j].severity
             /\ recsOut.recs[i].potential_savings > recsOut.recs[j].potential_savings)
            => recsOut.recs[i].priority_score > recsOut.recs[j].priority_score

\* C9 (amended): with identical type and severity, a larger potential_savings
\* never gives a smaller priority_score, and gives a strictly larger one
\* whenever the smaller savings is below the cap of 200.
C9_NonDecreasingCapped ==
    recsOut.done =>
        \A i, j \in 1..Len(recsOut.recs) :
            (/\ recsOut.recs[i].type = recsOut.recs[j].type
             /\ recsOut.recs[i].severity = recsOut.recs[j].severity
             /\ recsOut.recs[i].potential_savings > recsOut.recs[j].potential_savings)
            => /\ recsOut.recs[i].priority_score >= recsOut.recs[j].priority_score
               /\ recsOut.recs[j].potential_savings < 200
                    => recsOut.recs[i].priority_score > recsOut.recs[j].priority_score
               /\ recsOut.recs[j].potential_savings >= 200
                    => recsOut.recs[i].priority_score = recsOut.recs[j].priority_score

C9_Witness ==
    /\ recsOut.done
    /\ \E i, j \in 1..Len(recsOut.recs) :
        /\ recsOut.recs[i].type = recsOut.recs[j].type
        /\ recsOut.recs[i].severity = recsOut.recs[j].severity
        /\ recsOut.recs[j].potential_savings = 150
        /\ recsOut.recs[i].potential_savings = 300

\* C10: every recommendation gets priority_score = type_base_priority x
\* severity_multiplier x (1 + min(potential_savings/100, 2.0)), the multiplier
\* being 1.5 for high, 1.0 for medium and 0.5 for low (scores times 200).
C10_PriorityFormula ==
    recsOut.done =>
        /\ Len(recsOut.recs) = Len(recsIn)
        /\ \A i \in 1..Len(recsOut.recs) :
            LET r == recsOut.recs[i]
                cap == IF r.potential_savings < 200 THEN r.potential_savings ELSE 200
            IN  /\ r.severity = "high"
                    => r.priority_score = TypePriority(r.type) * 3 * (100 + cap)
                /\ r.severity = "medium"
                    => r.priority_score = TypePriority(r.type) * 2 * (100 + cap)
                /\ r.severity = "low"
                    => r.priority_score = TypePriority(r.type) * 1 * (100 + cap)

C10_Witness ==
    /\ recsOut.done
    /\ \E i, j \in 1..Len(recsOut.recs) :
        /\ recsOut.recs[i].severity = "high"
        /\ recsOut.recs[i].potential_savings = 300
        /\ recsOut.recs[i].priority_score = 70 * 3 * 300
        /\ recsOut.recs[j].severity = "low"
        /\ recsOut.recs[j].priority_score = 50 * 1 * 250

\* C20: the synthesizer deduplicates the merged list: a recommendation of
\* the same type about the same entity is in the final list only once.
C20_NoDuplicateRecommendation ==
    recsOut.done =>
        \A i, j \in 1..Len(recsOut.recs) :
            (/\ i < j
             /\ "ad_id" \in DOMAIN recsOut.recs[i]
             /\ "ad_id" \in DOMAIN recsOut.recs[j])
            => ~(/\ recsOut.recs[i].type = recsOut.recs[j].type
                 /\ recsOut.recs[i].ad_id = recsOut.recs[j].ad_id)

(***************************************************************************)
(* Budget Efficiency Scorer: BudgetOptimizer._calculate_efficiency_score   *)
(* metrics maps each index name to a whole index value; 0 stands for an    *)
(* index that is absent, NaN or not positive (the code skips all three).   *)
(* Weights are hundredths.  The score is kept times 20000.                 *)
(***************************************************************************)

IndexNames ==
    {"ctr_index", "cpm_index", "cpc_index", "conversion_rate_index", "cpa_index"}

\* weights = {...}, in hundredths
Weight(metric) ==
    CASE metric = "ctr_index" -> 15
      [] metric = "cpm_index" -> 15
      [] metric = "cpc_index" -> 20
      [] metric = "conversion_rate_index" -> 25
      [] metric = "cpa_index" -> 25

\* metric in metrics and not pd.isna(metrics[metric]) and metrics[metric] > 0
Usable(m, metric) == m[metric] > 0

\* a metric_score that is capped and never rescaled
MetricScore2Unshifted(m, metric) ==
    2 * (IF m[metric] > 200 THEN 200 ELSE m[metric])

\* The capped, rescaled metric_score, times 2.
MetricScore2(m, metric) ==
    LET capped == IF m[metric] > 200 THEN 200 ELSE m[metric]
    IN  IF metric = "cpa_index" THEN 2 * capped ELSE capped + 100

\* (metric_score - 50) * weight, times 200
Contribution200(m, metric) ==
    IF Usable(m, metric) THEN (MetricScore2(m, metric) - 100) * Weight(metric) ELSE 0

UsedWeight(m, metric) == IF Usable(m, metric) THEN Weight(metric) ELSE 0

\* weight_sum, in hundredths
WeightSum(m) ==
    UsedWeight(m, "ctr_index") + UsedWeight(m, "cpm_index")
        + UsedWeight(m, "cpc_index") + UsedWeight(m, "conversion_rate_index")
        + UsedWeight(m, "cpa_index")

\* score after the loop, times 200 (base score 50.0)
RawScore200(m) ==
    10000 + Contribution200(m, "ctr_index") + Contribution200(m, "cpm_index")
        + Contribution200(m, "cpc_index")
        + Contribution200(m, "conversion_rate_index")
        + Contribution200(m, "cpa_index")

\* _calculate_efficiency_score, times 20000
CalculateEfficiencyScore(m) ==
    LET w == WeightSum(m)
        blended == IF w < 50
                   THEN RawScore200(m) * (2 * w) + 10000 * (100 - 2 * w)
                   ELSE RawScore200(m) * 100
    IN  Max(0, Min(100 * 20000, blended))

ScoreScale == 200 * 100

MaxIndexSteps == 5

\* index values: 0, an index far below its peers (1), and steps of 50
IndexValues == {0, 1} \cup {50 * k : k \in 1..MaxIndexSteps}

InitScore ==
    /\ metrics \in [IndexNames -> IndexValues]
    /\ score = [done |-> FALSE, value |-> 0]
    /\ IdleAudit /\ IdlePrio /\ IdleFatigue /\ IdleAudience
    /\ IdleBudget /\ IdleMetrics /\ IdleBatch /\ IdleImprove /\ IdleAnalysis /\ IdleCache

ScoreEntity ==
    /\ ~score.done
    /\ score' = [done |-> TRUE, value |-> CalculateEfficiencyScore(metrics)]
    /\ UNCHANGED <<metrics, auditVars, prioVars, fatigueVars, audienceVars>>
    /\ UNCHANGED <<budgetVars, metricVars, batchVars, improveVars, analysisVars, cacheVars>>

NextScore == ScoreEntity

SpecScore == InitScore /\ [][NextScore]_vars

\* C4: an entity whose every available index equals the peer-group baseline
\* (100) gets an efficiency score of about 50 (here: within 5 points of 50).
C4_BaselineScoresFifty ==
    (/\ score.done
     /\ \A n \in IndexNames : metrics[n] \in {0, 100}
     /\ \E n \in IndexNames : metrics[n] = 100)
    => Abs(score.value - 50 * ScoreScale) <= 5 * ScoreScale

\* What the code returns at the baseline: 100 when all five indices are 100.
C4_BaselineScoresHundred ==
    (score.done /\ \A n \in IndexNames : metrics[n] = 100)
    => score.value = 100 * ScoreScale

\* if efficiency_score < 30: the branch that emits the high-severity ad-set
\* and ad recommendations
VeryInefficient(efficiency_score) == efficiency_score < 30 * ScoreScale

\* C27: _calculate_efficiency_score returns a value within 37.5..100 for
\* every metrics input, so the 'efficiency_score < 30' branches are never
\* taken.
C27_ScoreAtLeast37Point5 ==
    score.done =>
        /\ 2 * score.value >= 75 * ScoreScale
        /\ score.value <= 100 * ScoreScale
        /\ ~VeryInefficient(score.value)

\* all five indices usable and far below the peers: a score below 40
C27_Witness ==
    /\ score.done
    /\ \A n \in IndexNames : metrics[n] = 1
    /\ score.value < 40 * ScoreScale
    /\ 2 * score.value > 75 * ScoreScale

(***************************************************************************)
(* Fatigue Detector: detect_ad_fatigue                                     *)
(* adData is [cols, date, ctr, frequency, conversions, clicks, spend]:     *)
(* cols is the set of columns present, the others are the columns' values  *)
(* row by row (a column that is absent is never read).  Dates are whole    *)
(* day numbers.  Rows are given in date order, so sort_values('date')      *)
(* leaves them in place.                                                   *)
(***************************************************************************)

\* detect_ad_fatigue(ad_daily_data, min_days=5, confidence_threshold=0.90)
min_days == 5

\* confidence_threshold, in hundredths
confidence_threshold == 90

RECURSIVE Dot(_, _)
Dot(x, y) == IF x = <<>> THEN 0 ELSE Head(x) * Head(y) + Dot(Tail(x), Tail(y))

RECURSIVE SeqMax(_)
SeqMax(x) == IF Len(x) = 1 THEN x[1] ELSE Max(Head(x), SeqMax(Tail(x)))

RECURSIVE SeqMin(_)
SeqMin(x) == IF Len(x) = 1 THEN x[1] ELSE Min(Head(x), SeqMin(Tail(x)))

\* n^2 times the covariance of x and y: n*sum(xy) - sum(x)*sum(y)
Sxy(x, y) == Len(x) * Dot(x, y) - SeqSum(x) * SeqSum(y)

\* The square of the two-sided 10% critical value of Student's t with df
\* degrees of freedom, times 100: linregress' p_value < 0.1 is |t| above it.
TCrit2x100(df) ==
    CASE df = 1 -> 3986
      [] df = 2 -> 853
      [] df = 3 -> 554
      [] df = 4 -> 454
      [] df = 5 -> 406
      [] df = 6 -> 378
      [] df = 7 -> 359
      [] df = 8 -> 346
      [] df = 9 -> 336
      [] OTHER -> 329

\* stats.linregress(x, y): p_value < 0.1, with t^2 = r^2 * df / (1 - r^2) and
\* r^2 = Sxy^2 / (Sxx * Syy); a constant y gives r = 0 and p = 1.
PValueBelowTenth(x, y) ==
    \E sxy \in {Sxy(x, y)}, sxx \in {Sxy(x, x)}, syy \in {Sxy(y, y)},
       df \in {Len(x) - 2} :
        /\ df >= 1
        /\ sxy * sxy * df
            > TCrit2x100(df) * ((sxx * syy - sxy * sxy) \div 100)
              + (TCrit2x100(df) * ((sxx * syy - sxy * sxy) % 100)) \div 100

\* p_value < 0.1 and slope < 0
SignificantDecline(x, y) == PValueBelowTenth(x, y) /\ Sxy(x, y) < 0

\* p_value < 0.1 and slope > 0
SignificantIncrease(x, y) == PValueBelowTenth(x, y) /\ Sxy(x, y) > 0

\* ad_daily_data['frequency'].corr(ad_daily_data['ctr']) < -0.3; the
\* correlation is NaN, and the comparison false, when a column is constant.
NegativeCorrelation(f, y) ==
    \E sfy \in {Sxy(f, y)}, sff \in {Sxy(f, f)}, syy \in {Sxy(y, y)} :
        /\ sff > 0 /\ syy > 0
        /\ sfy < 0
        /\ sfy * sfy > (9 * sff * syy) \div 100

\* rolling(window=3, min_periods=1).mean() at row i, times 6
Ma3x6(y, i) ==
    IF i = 1 THEN 6 * y[1]
    ELSE IF i = 2 THEN 3 * (y[1] + y[2])
    ELSE 2 * (y[i - 2] + y[i - 1] + y[i])

\* ctr_ma3.diff().tail(3).mean() < 0 (the first row's diff is NaN and is
\* skipped by mean())
AcceleratingDecline(y) ==
    LET n == Len(y)
        idx == {i \in (n - 2)..n : i >= 2}
        d(i) == Ma3x6(y, i) - Ma3x6(y, i - 1)
    IN  (IF (n - 2) \in idx THEN d(n - 2) ELSE 0)
        + (IF (n - 1) \in idx THEN d(n - 1) ELSE 0)
        + (IF n \in idx THEN d(n) ELSE 0) < 0

\* day_number = (dates - dates.min()).dt.days
DayNumbers(d) == [i \in 1..Len(d) |-> d[i] - SeqMin(d)]

\* (ad_daily_data['conversions'] / ad_daily_data['clicks']) * 100
ConvRate(a) == [i \in 1..Len(a.date) |-> (a.conversions[i] * 100) \div a.clicks[i]]

\* ad_daily_data['spend'] / ad_daily_data['clicks']
Cpc(a) == [i \in 1..Len(a.date) |-> a.spend[i] \div a.clicks[i]]

NotAssessed ==
    [done |-> TRUE, assessed |-> FALSE, is_fatigued |-> FALSE,
     conf_num |-> 0, conf_den |-> 1, days_running |-> 0,
     fatigue_signals |-> 0, max_signals |-> 0, severity |-> None,
     signals |-> [ctr |-> "absent", frequency |-> "absent",
                  conversion |-> "absent", cpc |-> "absent",
                  acceleration |-> "absent"]]

Fired(b) == IF b THEN "yes" ELSE "no"

\* The five signals of an assessed ad: "absent" (not evaluable), "no", "yes".
Signals(a) ==
    LET x == DayNumbers(a.date)
        n == Len(a.date)
    IN  [ctr |->
            IF "ctr" \in a.cols
            THEN Fired(SignificantDecline(x, a.ctr)) ELSE "absent",
         frequency |->
            IF "frequency" \in a.cols /\ "ctr" \in a.cols
            THEN Fired(NegativeCorrelation(a.frequency, a.ctr)) ELSE "absent",
         conversion |->
            IF "conversions" \in a.cols /\ "clicks" \in a.cols /\ n >= min_days
            THEN Fired(SignificantDecline(x, ConvRate(a))) ELSE "absent",
         cpc |->
            IF "clicks" \in a.cols /\ "spend" \in a.cols /\ n >= min_days
            THEN Fired(SignificantIncrease(x, Cpc(a))) ELSE "absent",
         acceleration |->
            IF "ctr" \in a.cols /\ n >= min_days + 2
            THEN Fired(AcceleratingDecline(a.ctr)) ELSE "absent"]

SignalNames == {"ctr", "frequency", "conversion", "cpc", "acceleration"}

\* len(ad_daily_data) < min_days
TooFewRows(a) == Len(a.date) < min_days

\* days_running = (dates.max() - dates.min()).days + 1
DaysRunning(a) == SeqMax(a.date) - SeqMin(a.date) + 1

\* a threshold test that every confidence passes
AtLeastThresholdAlways(num, den) == TRUE

\* a threshold test at 0.80
AtLeastThresholdLoose(num, den) == num * 100 >= 80 * den

\* the assessment without the day factor
AssessWithoutDayFactor(sig, days) ==
    LET maxs == Cardinality({k \in SignalNames : sig[k] # "absent"})
        fired == Cardinality({k \in SignalNames : sig[k] = "yes"})
        num == IF maxs > 0 THEN fired ELSE 0
        den == IF maxs > 0 THEN maxs ELSE 1
        fat == num * 100 >= confidence_threshold * den
    IN  [done |-> TRUE, assessed |-> TRUE, is_fatigued |-> fat,
         conf_num |-> num, conf_den |-> den, days_running |-> days,
         fatigue_signals |-> fired, max_signals |-> maxs,
         severity |-> IF ~fat THEN None
                      ELSE IF num * 10 > 8 * den THEN "severe"
                      ELSE "moderate",
         signals |-> sig]

\* confidence >= confidence_threshold, with confidence = num / den
AtLeastThreshold(num, den) == num * 100 >= confidence_threshold * den

\* The part of detect_ad_fatigue after the metrics are computed: the signal
\* count, the confidence (conf_num / conf_den) and the verdict.
Assess(sig, days) ==
    LET maxs == Cardinality({k \in SignalNames : sig[k] # "absent"})
        fired == Cardinality({k \in SignalNames : sig[k] = "yes"})
        num == IF maxs > 0 THEN fired * Min(14, days) ELSE 0
        den == IF maxs > 0 THEN maxs * 14 ELSE 1
        fat == AtLeastThreshold(num, den)
    IN  [done |-> TRUE, assessed |-> TRUE, is_fatigued |-> fat,
         conf_num |-> num, conf_den |-> den, days_running |-> days,
         fatigue_signals |-> fired, max_signals |-> maxs,
         severity |-> IF ~fat THEN None
                      ELSE IF num * 10 > 8 * den THEN "severe"
                      ELSE "moderate",
         signals |-> sig]

\* detect_ad_fatigue (the signals are computed once and handed to Assess)
DetectAdFatigue(a) ==
    IF TooFewRows(a) THEN NotAssessed
    ELSE IF DaysRunning(a) < min_days THEN NotAssessed
    ELSE CHOOSE r \in {Assess(sig, DaysRunning(a)) : sig \in {Signals(a)}} : TRUE

(***************************************************************************)
(* SpecFatigue: detect_ad_fatigue, default parameters, on one ad's rows.   *)
(* The rows are MinRows..MaxRows long.  Their dates follow one of four     *)
(* patterns; the CTR series starts at MaxRows and moves by one step of     *)
(* CtrSteps per row; each further column follows one of a few shapes.      *)
(***************************************************************************)

MinRows == min_days - 1
MaxRows == 7

DatePatterns == {"daily", "stretched", "clustered", "paired"}

\* The date of row i of n.
DateOf(pattern, n, i) ==
    CASE pattern = "daily" -> i - 1
      [] pattern = "stretched" -> ((i - 1) * 13) \div (n - 1)
      [] pattern = "clustered" -> IF i < n THEN 0 ELSE 4
      [] pattern = "paired" -> (i - 1) \div 2

CtrSteps == {-1, 0, 1}

RECURSIVE PrefixSum(_, _)
PrefixSum(d, i) == IF i = 0 THEN 0 ELSE d[i] + PrefixSum(d, i - 1)

FrequencyShapes == {"absent", "flat", "rising"}
ConversionShapes == {"absent", "flat", "falling"}
SpendShapes == {"absent", "flat", "rising"}

MakeAd(n, pattern, start, hasCtr, steps, freq, hasClicks, conv, spend) ==
    [cols |-> (IF hasCtr THEN {"ctr"} ELSE {})
                \cup (IF freq # "absent" THEN {"frequency"} ELSE {})
                \cup (IF hasClicks THEN {"clicks"} ELSE {})
                \cup (IF conv # "absent" THEN {"conversions"} ELSE {})
                \cup (IF spend # "absent" THEN {"spend"} ELSE {}),
     date |-> [i \in 1..n |-> DateOf(pattern, n, i)],
     ctr |-> [i \in 1..n |-> start + PrefixSum(steps, i - 1)],
     frequency |-> [i \in 1..n |-> IF freq = "rising" THEN i ELSE 2],
     clicks |-> [i \in 1..n |-> 100],
     conversions |-> [i \in 1..n |-> IF conv = "falling" THEN n + 1 - i ELSE 5],
     spend |-> [i \in 1..n |-> IF spend = "rising" THEN 100 * i ELSE 200]]

IdleFatigueResult == [done |-> FALSE]

\* Short series: every row takes its own step.
ShortSeries == UNION {[1..(n - 1) -> CtrSteps] : n \in MinRows..MaxRows}

\* Long series, one row a day for up to 2 * MaxRows days: one step for the
\* first MaxRows rows, one for the rows after them.
LongLengths == {2 * MaxRows - 2, 2 * MaxRows - 1, 2 * MaxRows}

LongSeries ==
    {[i \in 1..(n - 1) |-> IF i < MaxRows THEN a ELSE b] :
        a \in CtrSteps, b \in CtrSteps, n \in LongLengths}

InitFatigue ==
    /\ \E hasCtr \in BOOLEAN, freq \in FrequencyShapes, hasClicks \in BOOLEAN,
          conv \in ConversionShapes, spend \in SpendShapes :
        /\ hasClicks \/ spend = "absent"
        /\ \/ \E pattern \in DatePatterns, steps \in ShortSeries :
                /\ hasCtr \/ \A i \in 1..Len(steps) : steps[i] = 0
                /\ adData = MakeAd(Len(steps) + 1, pattern, MaxRows, hasCtr,
                                   steps, freq, hasClicks, conv, spend)
           \/ \E steps \in LongSeries :
                /\ hasCtr \/ \A i \in 1..Len(steps) : steps[i] = 0
                /\ adData = MakeAd(Len(steps) + 1, "daily", 2 * MaxRows, hasCtr,
                                   steps, freq, hasClicks, conv, spend)
    /\ fatigue = IdleFatigueResult
    /\ IdleAudit /\ IdlePrio /\ IdleAudience /\ IdleScore
    /\ IdleBudget /\ IdleMetrics /\ IdleBatch /\ IdleImprove /\ IdleAnalysis /\ IdleCache

Detect ==
    /\ ~fatigue.done
    /\ fatigue' = DetectAdFatigue(adData)
    /\ UNCHANGED <<adData, auditVars, prioVars, audienceVars, scoreVars>>
    /\ UNCHANGED <<budgetVars, metricVars, batchVars, improveVars, analysisVars, cacheVars>>

NextFatigue == Detect

SpecFatigue == InitFatigue /\ [][NextFatigue]_vars

\* The two-sided 5% critical value of Student's t, squared, times 100.
TCrit5Pct2x100(df) ==
    CASE df = 1 -> 16145
      [] df = 2 -> 1851
      [] df = 3 -> 1013
      [] df = 4 -> 771
      [] df = 5 -> 661
      [] df = 6 -> 599
      [] df = 7 -> 559
      [] df = 8 -> 532
      [] df = 9 -> 512
      [] df = 10 -> 496
      [] df = 11 -> 484
      [] df = 12 -> 475
      [] df = 13 -> 467
      [] OTHER -> 460

\* The regression of y on x has slope < 0 and p-value < 0.05.
DeclineAtFivePercent(x, y) ==
    \E sxy \in {Sxy(x, y)}, sxx \in {Sxy(x, x)}, syy \in {Sxy(y, y)},
       df \in {Len(x) - 2} :
        /\ df >= 1 /\ sxy < 0
        /\ sxy * sxy * df
            > TCrit5Pct2x100(df) * ((sxx * syy - sxy * sxy) \div 100)
              + (TCrit5Pct2x100(df) * ((sxx * syy - sxy * sxy) % 100)) \div 100

NonIncreasing(y) == \A i \in 1..(Len(y) - 1) : y[i + 1] <= y[i]
StrictlyDeclining(y) == \A i \in 1..(Len(y) - 1) : y[i + 1] < y[i]

DistinctDays(a) == Cardinality({a.date[i] : i \in 1..Len(a.date)})

\* The case of C5: an assessed ad whose CTR declines monotonically over at
\* least 14 days of rows with a significant regression.
C5_Case ==
    /\ fatigue.done
    /\ "ctr" \in adData.cols
    /\ Len(adData.date) >= min_days
    /\ DaysRunning(adData) >= 14
    /\ NonIncreasing(adData.ctr)
    /\ DeclineAtFivePercent(DayNumbers(adData.date), adData.ctr)

AllEvaluableFired == \A k \in SignalNames : fatigue.signals[k] # "no"

\* C5 (as claimed, for a strictly declining CTR): such an ad is reported
\* fatigued with confidence above 0.90 whichever other columns its rows carry.
C5_DecliningCtrIsFatigued ==
    (C5_Case /\ StrictlyDeclining(adData.ctr))
    => /\ fatigue.is_fatigued
       /\ fatigue.conf_num * 100 > 90 * fatigue.conf_den

\* C5 (amended): such an ad is reported fatigued, with confidence above 0.90,
\* exactly when every evaluable signal fired; it then has confidence 1. That
\* is the case when its rows carry no frequency, conversions or spend column
\* and the CTR declines strictly. Otherwise the confidence is at most 0.8.
C5_FatiguedIffAllSignalsFire ==
    C5_Case =>
        /\ fatigue.signals.ctr = "yes"
        /\ fatigue.is_fatigued <=> AllEvaluableFired
        /\ fatigue.is_fatigued <=> fatigue.conf_num * 100 > 90 * fatigue.conf_den
        /\ fatigue.is_fatigued => fatigue.conf_num = fatigue.conf_den
        /\ ~fatigue.is_fatigued => fatigue.conf_num * 10 <= 8 * fatigue.conf_den
        /\ (/\ adData.cols \cap {"frequency", "conversions", "spend"} = {}
            /\ StrictlyDeclining(adData.ctr)) => fatigue.is_fatigued

C5_Witness ==
    /\ C5_Case
    /\ fatigue.is_fatigued
    /\ fatigue.max_signals = 5
    /\ Len(adData.date) = 2 * MaxRows

\* C6: an ad whose rows cover fewer than min_days distinct calendar days is
\* not assessed: is_fatigued = false and confidence = 0.
C6_FewDistinctDaysNotAssessed ==
    (fatigue.done /\ DistinctDays(adData) < min_days)
    => ~fatigue.is_fatigued /\ fatigue.conf_num = 0

\* the signals of the result that were evaluable, and those that fired
EvaluableSignals == {k \in SignalNames : fatigue.signals[k] # "absent"}
FiredSignals == {k \in SignalNames : fatigue.signals[k] = "yes"}

\* C25: confidence = (fired signals / evaluable signals) * min(1, days_running
\* / 14), confidence is 0 when no signal is evaluable, is_fatigued holds
\* exactly when confidence >= confidence_threshold, and confidence is within
\* 0..1.
C25_ConfidenceFormula ==
    (fatigue.done /\ fatigue.assessed) =>
        /\ fatigue.conf_den > 0
        /\ IF EvaluableSignals = {} THEN fatigue.conf_num = 0
           ELSE fatigue.conf_num * Cardinality(EvaluableSignals) * 14
                  = Cardinality(FiredSignals)
                      * Min(14, SeqMax(adData.date) - SeqMin(adData.date) + 1)
                      * fatigue.conf_den
        /\ fatigue.is_fatigued
              <=> fatigue.conf_num * 100 >= confidence_threshold * fatigue.conf_den
        /\ 0 <= fatigue.conf_num /\ fatigue.conf_num <= fatigue.conf_den

\* an ad of fewer than 14 days with some, not all, of several evaluable
\* signals fired: both factors are strictly between 0 and 1
C25_Witness ==
    /\ fatigue.done /\ fatigue.assessed
    /\ Cardinality(EvaluableSignals) >= 3
    /\ Cardinality(FiredSignals) \in 1..(Cardinality(EvaluableSignals) - 1)
    /\ fatigue.days_running \in min_days..13
    /\ fatigue.conf_num > 0 /\ ~fatigue.is_fatigued

\* C26: with confidence_threshold = 0.90 an ad is reported fatigued only when
\* every evaluable signal fired and days_running >= 13; every fatigued result
\* has severity "severe" and no result has severity "moderate".
C26_FatiguedOnlyWhenAllFiredAfter13Days ==
    fatigue.done =>
        /\ fatigue.is_fatigued =>
              /\ EvaluableSignals # {}
              /\ FiredSignals = EvaluableSignals
              /\ SeqMax(adData.date) - SeqMin(adData.date) + 1 >= 13
              /\ fatigue.severity = "severe"
        /\ fatigue.severity # "moderate"

\* an ad fatigued at exactly 13 days of running
C26_Witness ==
    /\ fatigue.done /\ fatigue.is_fatigued
    /\ fatigue.days_running = 13
    /\ Cardinality(EvaluableSignals) >= 2
    /\ fatigue.severity = "severe"

\* every evaluable signal fired over 12 days: confidence 12/14, above 0.8 and
\* below the threshold
C26_TwelveDays ==
    /\ fatigue.done /\ fatigue.assessed
    /\ fatigue.days_running = 12
    /\ EvaluableSignals # {} /\ FiredSignals = EvaluableSignals
    /\ ~fatigue.is_fatigued

(***************************************************************************)
(* Audience Segment Analyzer: AudienceTargetingAnalyzer                    *)
(* insights is [cols, grouped, rows]: cols is the set of the columns       *)
(* "age", "gender", "conversions" that are present; grouped says that the  *)
(* rows carry a date and the id columns of one ad set (what _process_data  *)
(* groups by); a row is [age, gender, impressions, clicks, spend,          *)
(* conversions].  A rate is kept as a fraction [n, d].                     *)
(***************************************************************************)

\* AudienceTargetingAnalyzer(min_segment_size=100), enhanced_analyzer.py:28
min_segment_size == 100

RECURSIVE SelectSeq2(_, _, _)
SelectSeq2(seq, P(_, _), arg) ==
    IF seq = <<>> THEN <<>>
    ELSE (IF P(Head(seq), arg) THEN <<Head(seq)>> ELSE <<>>)
            \o SelectSeq2(Tail(seq), P, arg)

\* The key of a row under a segmentation: a tuple of its segment values.
KeyOf(row, segment_types) == [i \in 1..Len(segment_types) |-> row[segment_types[i]]]

\* groupby sorts its keys: the keys in their sorted order.
SortedValues(col) ==
    IF col = "age" THEN <<"18-24", "25-34">> ELSE <<"female", "male">>

SortedKeys(segment_types) ==
    IF Len(segment_types) = 1
    THEN [i \in 1..2 |-> <<SortedValues(segment_types[1])[i]>>]
    ELSE [i \in 1..4 |-> <<SortedValues(segment_types[1])[((i - 1) \div 2) + 1],
                           SortedValues(segment_types[2])[((i - 1) % 2) + 1]>>]

RECURSIVE SumField(_, _, _, _)
SumField(rows, segment_types, key, field) ==
    IF rows = <<>> THEN 0
    ELSE (IF KeyOf(Head(rows), segment_types) = key THEN Head(rows)[field] ELSE 0)
            + SumField(Tail(rows), segment_types, key, field)

RECURSIVE TotalField(_, _)
TotalField(rows, field) ==
    IF rows = <<>> THEN 0 ELSE Head(rows)[field] + TotalField(Tail(rows), field)

HasKey(rows, segment_types, key) ==
    \E i \in 1..Len(rows) : KeyOf(rows[i], segment_types) = key

\* df.groupby(segment_types).agg(sum): one record per key present, in key order
RECURSIVE GroupBy(_, _, _)
GroupBy(rows, segment_types, keys) ==
    IF keys = <<>> THEN <<>>
    ELSE (IF HasKey(rows, segment_types, Head(keys))
          THEN <<[segment |-> Head(keys),
                  impressions |-> SumField(rows, segment_types, Head(keys), "impressions"),
                  clicks |-> SumField(rows, segment_types, Head(keys), "clicks"),
                  spend |-> SumField(rows, segment_types, Head(keys), "spend"),
                  conversions |-> SumField(rows, segment_types, Head(keys), "conversions")]>>
          ELSE <<>>)
         \o GroupBy(rows, segment_types, Tail(keys))

\* a size filter that keeps every segment
LargeEnoughOff(seg, size) == TRUE

\* segment_metrics[segment_metrics['impressions'] >= self.min_segment_size]
LargeEnough(seg, size) == seg.impressions >= size

FilterSegments(groups) == SelectSeq2(groups, LargeEnough, min_segment_size)

\* The value of a metric of a segment, as a fraction.
MetricOf(seg, metric) ==
    CASE metric = "ctr" -> [n |-> seg.clicks, d |-> seg.impressions]
      [] metric = "conversion_rate" -> [n |-> seg.conversions, d |-> seg.clicks]
      [] metric = "cpa" -> [n |-> seg.spend, d |-> seg.conversions]

FracLess(a, b) == a.n * b.d < b.n * a.d

\* nlargest(1, metric): the first row holding the largest value
RECURSIVE Largest(_, _)
Largest(segs, metric) ==
    IF Len(segs) = 1 THEN segs[1]
    ELSE LET rest == Largest(Tail(segs), metric)
         IN  IF FracLess(MetricOf(Head(segs), metric), MetricOf(rest, metric))
             THEN rest ELSE Head(segs)

\* nsmallest(1, metric): the first row holding the smallest value
RECURSIVE Smallest(_, _)
Smallest(segs, metric) ==
    IF Len(segs) = 1 THEN segs[1]
    ELSE LET rest == Smallest(Tail(segs), metric)
         IN  IF FracLess(MetricOf(rest, metric), MetricOf(Head(segs), metric))
             THEN rest ELSE Head(segs)

\* 10000 times the square of the two-tailed normal critical value at
\* 1 - confidence_level = 0.05
ZCrit2x10000 == 38415

\* p_value < 1 - confidence_level for the z-test of a segment's proportion
\* c/n against the overall proportion C/N:  z^2 = (cN - Cn)^2 / (n C (N-C)).
\* se > 0 needs 0 < C < N.  The comparison z^2 > 3.8415 is carried out on
\* the quotient and the remainder so that it stays within the integers.
IsSignificant(c, n, C, N) ==
    /\ n > 0 /\ C > 0 /\ C < N
    /\ \E d2 \in {(c * N - C * n) * (c * N - C * n)}, M \in {n * C * (N - C)} :
          LET q == d2 \div M
              r == d2 % M
              whole == ZCrit2x10000 \div 10000
              part == ZCrit2x10000 % 10000
          IN  \/ q > whole
              \/ /\ q = whole
                 /\ r > part * (M \div 10000) + (part * (M % 10000)) \div 10000

\* any(stat['is_significant'] for stat in segment_stats)
SignificantFindings(df, segs, hasConv) ==
    \E i \in 1..Len(segs) :
        \/ IsSignificant(segs[i].clicks, segs[i].impressions,
                         TotalField(df, "clicks"), TotalField(df, "impressions"))
        \/ /\ hasConv
           /\ segs[i].clicks > 0
           /\ IsSignificant(segs[i].conversions, segs[i].clicks,
                            TotalField(df, "conversions"), TotalField(df, "clicks"))

\* abs((best - worst) / worst * 100) against a percentage
DiffAtLeast(best, worst, pct) ==
    Abs(best.n * worst.d - worst.n * best.d) * 100 >= pct * (worst.n * best.d)

DiffMoreThan(best, worst, pct) ==
    Abs(best.n * worst.d - worst.n * best.d) * 100 > pct * (worst.n * best.d)

HasCpa(seg, unused) == seg.conversions > 0 /\ seg.spend > 0

\* _identify_best_worst_segments: [found, best, worst] of one metric
BestWorst(segs, metric) ==
    IF metric = "cpa"
    THEN LET valid_segments == SelectSeq2(segs, HasCpa, 0)
         IN  IF valid_segments = <<>>
             THEN [found |-> FALSE, best |-> segs[1], worst |-> segs[1]]
             ELSE [found |-> TRUE,
                   best |-> Smallest(valid_segments, metric),
                   worst |-> Largest(valid_segments, metric)]
    ELSE [found |-> TRUE, best |-> Largest(segs, metric),
          worst |-> Smallest(segs, metric)]

PerformanceMetrics(hasConv) ==
    IF hasConv THEN <<"ctr", "conversion_rate", "cpa">> ELSE <<"ctr">>

\* _estimate_potential_savings: the percentage of the worst segment's spend
SavingsPercent(best, worst, infinite) ==
    IF infinite THEN 40
    ELSE IF ~DiffAtLeast(best, worst, 50) THEN 15
    ELSE IF ~DiffAtLeast(best, worst, 100) THEN 25
    ELSE 40

RecommendationType(segment_type, metric) ==
    CASE segment_type = "age" /\ metric = "ctr" -> "age_ctr_optimization"
      [] segment_type = "age" /\ metric = "conversion_rate" -> "age_conversion_rate_optimization"
      [] segment_type = "age" /\ metric = "cpa" -> "age_cpa_optimization"
      [] segment_type = "gender" /\ metric = "ctr" -> "gender_ctr_optimization"
      [] segment_type = "gender" /\ metric = "conversion_rate" -> "gender_conversion_rate_optimization"
      [] segment_type = "gender" /\ metric = "cpa" -> "gender_cpa_optimization"
      [] segment_type = "cross_segment" /\ metric = "ctr" -> "cross_segment_ctr_optimization"
      [] segment_type = "cross_segment" /\ metric = "conversion_rate" -> "cross_segment_conversion_rate_optimization"

\* The recommendation of one metric of one segmentation, or none.
\* difference_pct is inf when the worst value is 0.
RecommendationFor(segment_type, segs, metric) ==
    LET bw == BestWorst(segs, metric)
        b == MetricOf(bw.best, metric)
        w == MetricOf(bw.worst, metric)
        infinite == w.n = 0
    IN  IF ~bw.found THEN <<>>
        ELSE IF ~infinite /\ ~DiffAtLeast(b, w, 30) THEN <<>>
        ELSE <<[type |-> RecommendationType(segment_type, metric),
                segment_type |-> segment_type,
                best_segment |-> bw.best.segment,
                worst_segment |-> bw.worst.segment,
                metric |-> metric,
                severity |-> IF infinite \/ DiffMoreThan(b, w, 100)
                             THEN "high" ELSE "medium",
                potential_savings_x100 |->
                    bw.worst.spend * SavingsPercent(b, w, infinite)]>>

RECURSIVE GenerateRecommendations(_, _, _)
GenerateRecommendations(segment_type, segs, metricNames) ==
    IF metricNames = <<>> THEN <<>>
    ELSE RecommendationFor(segment_type, segs, Head(metricNames))
            \o GenerateRecommendations(segment_type, segs, Tail(metricNames))
NotAnalysed == [analysed |-> FALSE, segment_metrics |-> <<>>,
                significant_findings |-> FALSE, recommendations |-> <<>>]

\* _analyze_segment_type from the filtered segments on, followed by
\* _generate_recommendations, which returns nothing unless significant_findings
SegmentResults(df, segment_type, hasConv, segs) ==
    IF Len(segs) < 2 THEN NotAnalysed
    ELSE [analysed |-> TRUE, segment_metrics |-> segs,
          significant_findings |-> SignificantFindings(df, segs, hasConv),
          recommendations |->
              IF SignificantFindings(df, segs, hasConv)
              THEN GenerateRecommendations(segment_type, segs,
                                           PerformanceMetrics(hasConv))
              ELSE <<>>]

AnalyzeSegmentType(df, segment_type, hasConv) ==
    CHOOSE r \in { SegmentResults(df, segment_type, hasConv, segs) :
                     segs \in {FilterSegments(GroupBy(df, <<segment_type>>,
                                              SortedKeys(<<segment_type>>)))} } : TRUE

CrossMetrics(hasConv) == IF hasConv THEN <<"ctr", "conversion_rate">> ELSE <<"ctr">>

\* _analyze_cross_segments: worst_value != 0 and diff_pct > 50 for some metric
CrossSignificant(segs, hasConv) ==
    \E i \in 1..Len(CrossMetrics(hasConv)) :
        LET metric == CrossMetrics(hasConv)[i]
            b == MetricOf(Largest(segs, metric), metric)
            w == MetricOf(Smallest(segs, metric), metric)
        IN  w.n # 0 /\ DiffMoreThan(b, w, 50)

\* _generate_cross_segment_recommendations for one metric: diff_pct is 100
\* when the worst value is 0
CrossRecommendationFor(segs, metric) ==
    LET best == Largest(segs, metric)
        worst == Smallest(segs, metric)
        b == MetricOf(best, metric)
        w == MetricOf(worst, metric)
        zero == w.n = 0
    IN  IF ~zero /\ ~DiffAtLeast(b, w, 50) THEN <<>>
        ELSE <<[type |-> RecommendationType("cross_segment", metric),
                segment_type |-> "age_gender",
                best_segment |-> best.segment,
                worst_segment |-> worst.segment,
                metric |-> metric,
                severity |-> IF ~zero /\ DiffMoreThan(b, w, 100)
                             THEN "high" ELSE "medium",
                potential_savings_x100 |->
                    worst.spend * (IF zero THEN 40 ELSE SavingsPercent(b, w, FALSE))]>>

RECURSIVE GenerateCrossSegmentRecommendations(_, _)
GenerateCrossSegmentRecommendations(segs, metricNames) ==
    IF metricNames = <<>> THEN <<>>
    ELSE CrossRecommendationFor(segs, Head(metricNames))
            \o GenerateCrossSegmentRecommendations(segs, Tail(metricNames))

CrossSegmentResults(hasConv, segs) ==
    IF Len(segs) < 2 THEN NotAnalysed
    ELSE [analysed |-> TRUE, segment_metrics |-> segs,
          significant_findings |-> CrossSignificant(segs, hasConv),
          recommendations |->
              IF CrossSignificant(segs, hasConv)
              THEN GenerateCrossSegmentRecommendations(segs, CrossMetrics(hasConv))
              ELSE <<>>]

AnalyzeCrossSegments(df, hasConv) ==
    CHOOSE r \in { CrossSegmentResults(hasConv, segs) :
                     segs \in {FilterSegments(GroupBy(df, <<"age", "gender">>,
                                              SortedKeys(<<"age", "gender">>)))} } : TRUE

\* _identify_segment_columns: the column is present and df[col].nunique() > 1
ValidSegment(df, cols, col) ==
    /\ col \in cols
    /\ \E i, j \in 1..Len(df) : df[i][col] # df[j][col]

\* results['segments'] and results['recommendations'] of analyze
AudienceResults(age, gender, cross) ==
    [ran |-> TRUE,
     age |-> [analysed |-> age.analysed, segment_metrics |-> age.segment_metrics],
     gender |-> [analysed |-> gender.analysed,
                 segment_metrics |-> gender.segment_metrics],
     age_gender |-> [analysed |-> cross.analysed,
                     segment_metrics |-> cross.segment_metrics],
     recommendations |-> age.recommendations \o gender.recommendations
                            \o cross.recommendations]

\* AudienceTargetingAnalyzer.analyze
AnalyzeAudienceSegments(df, cols) ==
    LET hasConv == "conversions" \in cols
    IN  CHOOSE r \in
          { AudienceResults(age, gender, cross) :
              age \in {IF ValidSegment(df, cols, "age")
                       THEN AnalyzeSegmentType(df, "age", hasConv) ELSE NotAnalysed},
              gender \in {IF ValidSegment(df, cols, "gender")
                          THEN AnalyzeSegmentType(df, "gender", hasConv)
                          ELSE NotAnalysed},
              cross \in {IF ValidSegment(df, cols, "age") /\ ValidSegment(df, cols, "gender")
                         THEN AnalyzeCrossSegments(df, hasConv) ELSE NotAnalysed} } : TRUE

\* _process_data on the insights: rows that carry a date and id columns are
\* grouped by the ids, numeric columns summed and the others (age, gender)
\* taking the first row's value; all rows here belong to one ad set.
ProcessInsights(ins) ==
    IF ins.grouped /\ ins.rows # <<>>
    THEN <<[age |-> ins.rows[1].age, gender |-> ins.rows[1].gender,
            impressions |-> TotalField(ins.rows, "impressions"),
            clicks |-> TotalField(ins.rows, "clicks"),
            spend |-> TotalField(ins.rows, "spend"),
            conversions |-> TotalField(ins.rows, "conversions")]>>
    ELSE ins.rows

AudienceNotRun ==
    [ran |-> FALSE,
     age |-> [analysed |-> FALSE, segment_metrics |-> <<>>],
     gender |-> [analysed |-> FALSE, segment_metrics |-> <<>>],
     age_gender |-> [analysed |-> FALSE, segment_metrics |-> <<>>],
     recommendations |-> <<>>]

\* _analyze_audience_targeting: None without insights or segment columns
AnalyzeAudienceTargeting(ins) ==
    IF ins.rows = <<>> \/ ins.cols \cap {"age", "gender"} = {}
    THEN AudienceNotRun
    ELSE AnalyzeAudienceSegments(ProcessInsights(ins), ins.cols)
(***************************************************************************)
(* SpecAudience: the audience analysis of every small set of insight rows   *)
(***************************************************************************)
MaxInsightRows == 3

\* [impressions, clicks, spend, conversions] of a row: one impression under
\* min_segment_size, exactly min_segment_size, and two larger sizes with
\* click-through rates of 5.0% and 2.1%
RowSizes ==
    { [impressions |-> min_segment_size - 1, clicks |-> 5, spend |-> 10, conversions |-> 0],
      [impressions |-> min_segment_size, clicks |-> 5, spend |-> 10, conversions |-> 1],
      [impressions |-> 120, clicks |-> 6, spend |-> 12, conversions |-> 3],
      [impressions |-> 1000, clicks |-> 21, spend |-> 100, conversions |-> 2] }

ColumnValues(col, cols) ==
    IF col \notin cols THEN {"n/a"}
    ELSE {SortedValues(col)[i] : i \in 1..2}

InsightRows(cols) ==
    { [age |-> a, gender |-> g, impressions |-> z.impressions, clicks |-> z.clicks,
       spend |-> z.spend,
       conversions |-> IF "conversions" \in cols THEN z.conversions ELSE 0] :
         a \in ColumnValues("age", cols), g \in ColumnValues("gender", cols),
         z \in RowSizes }

InitAudience ==
    /\ IdleAudit /\ IdlePrio /\ IdleFatigue /\ IdleScore
    /\ IdleBudget /\ IdleMetrics /\ IdleBatch /\ IdleImprove /\ IdleAnalysis /\ IdleCache
    /\ \E cols \in SUBSET {"age", "gender", "conversions"}, grouped \in BOOLEAN,
          n \in 0..MaxInsightRows :
          \E rows \in [1..n -> InsightRows(cols)] :
              insights = [cols |-> cols, grouped |-> grouped, rows |-> rows]
    /\ audience = [done |-> FALSE]

AnalyzeAudience ==
    /\ ~audience.done
    /\ audience' = [done |-> TRUE, result |-> AnalyzeAudienceTargeting(insights)]
    /\ UNCHANGED <<auditVars, prioVars, fatigueVars, scoreVars, insights>>
    /\ UNCHANGED <<budgetVars, metricVars, batchVars, improveVars, analysisVars, cacheVars>>

NextAudience == AnalyzeAudience

SpecAudience == InitAudience /\ [][NextAudience]_vars

\* C29: every recommendation type the Audience Segment Analyzer emits has
\* its own entry in the type_priority table: a cross-segment recommendation
\* gets base priority 65 and a single-dimension one a base priority
\* between 55 and 60, never the unknown-type default 50.
C29_AudienceTypesInPriorityTable ==
    (audience.done /\ audience.result.ran) =>
        \A i \in 1..Len(audience.result.recommendations) :
            \E rec \in {audience.result.recommendations[i]} :
                IF rec.segment_type = "age_gender"
                THEN TypePriority(rec.type) = 65
                ELSE TypePriority(rec.type) \in 55..60

Segmentations ==
    [age |-> <<"age">>, gender |-> <<"gender">>, age_gender |-> <<"age", "gender">>]

GroupsOf(name) ==
    GroupBy(ProcessInsights(insights), Segmentations[name], SortedKeys(Segmentations[name]))

\* C7: no segment with fewer than min_segment_size impressions appears in
\* the segment metrics of any analysed segmentation (age, gender, and the
\* age x gender combination), and a segment with exactly min_segment_size
\* impressions (or more) of an analysed segmentation is kept.
C7_SmallSegmentsExcluded ==
    audience.done =>
        \A name \in DOMAIN Segmentations :
            LET kept == audience.result[name].segment_metrics
                groups == GroupsOf(name)
            IN  /\ \A i \in 1..Len(kept) : kept[i].impressions >= min_segment_size
                /\ audience.result[name].analysed =>
                      \A i \in 1..Len(groups) :
                          groups[i].impressions >= min_segment_size
                          => \E j \in 1..Len(kept) : kept[j] = groups[i]

\* a combined age x gender analysis that dropped a segment of
\* min_segment_size - 1 impressions and kept one of exactly min_segment_size
C7_Witness ==
    /\ audience.done
    /\ audience.result.age_gender.analysed
    /\ \E i \in 1..Len(GroupsOf("age_gender")) :
          GroupsOf("age_gender")[i].impressions = min_segment_size - 1
    /\ \E j \in 1..Len(audience.result.age_gender.segment_metrics) :
          audience.result.age_gender.segment_metrics[j].impressions = min_segment_size

RowsOfGender(g) == SelectSeq2(insights.rows, LAMBDA row, v : row.gender = v, g)

\* the rows carry a gender breakdown only: the female rows have a CTR of
\* 5.0% and the male rows one of 2.1%, each over more than 100 impressions
C8_Case ==
    /\ insights.cols = {"gender"}
    /\ TotalField(RowsOfGender("female"), "impressions") > 100
    /\ TotalField(RowsOfGender("male"), "impressions") > 100
    /\ TotalField(RowsOfGender("female"), "clicks") * 100
          = 5 * TotalField(RowsOfGender("female"), "impressions")
    /\ TotalField(RowsOfGender("male"), "clicks") * 1000
          = 21 * TotalField(RowsOfGender("male"), "impressions")

\* C8: female at 5.0% and male at 2.1% CTR over more than 100 impressions
\* each give exactly one gender recommendation: best female, worst male,
\* severity high.
C8_ExactlyOneGenderRecommendation ==
    (audience.done /\ C8_Case) =>
        /\ audience.result.ran
        /\ Len(audience.result.recommendations) = 1
        /\ audience.result.recommendations[1].segment_type = "gender"
        /\ audience.result.recommendations[1].best_segment = <<"female">>
        /\ audience.result.recommendations[1].worst_segment = <<"male">>
        /\ audience.result.recommendations[1].severity = "high"
(***************************************************************************)
(* BudgetOptimizer (src/processing/budget_optimizer.py)                    *)
(* The frames: campaigns_df and ad_sets_df are sequences of ids (their     *)
(* other columns are names only; neither carries a spend or a campaign_id  *)
(* column of its own), insights_df is a sequence of rows                   *)
(* [campaign_id, adset_id, spend, impressions, clicks, conversions] and    *)
(* ads_df is empty.  A rate is kept in thousandths, rounded down; NaN      *)
(* stands for the float NaN.  An index is kept as a whole number, rounded  *)
(* down.  Savings are kept in hundredths of a currency unit.               *)
(***************************************************************************)
NaN == 0 - 1

RateScale == 10 * 100

\* min_data_threshold=1000, the default of BudgetOptimizer.__init__
min_data_threshold == 1000

\* BudgetOptimizer.__init__: the four arguments are stored as they come
NewBudgetOptimizer(min_campaign_spend, min_adset_spend, threshold, confidence_level) ==
    [constructed |-> TRUE,
     min_campaign_spend |-> min_campaign_spend,
     min_adset_spend |-> min_adset_spend,
     min_data_threshold |-> threshold,
     confidence_level |-> confidence_level]

\* (a / b) * factor on two columns followed by replace([inf, -inf], nan):
\* x/0 is inf or NaN in pandas, and both end up NaN
Ratio(a, b, factor) == IF b = 0 THEN NaN ELSE (a * factor * RateScale) \div b

RECURSIVE SumWhere(_, _, _, _)
\* groupby(col)[field].sum() for one key
SumWhere(rows, col, key, field) ==
    IF rows = <<>> THEN 0
    ELSE (IF Head(rows)[col] = key THEN Head(rows)[field] ELSE 0)
            + SumWhere(Tail(rows), col, key, field)

\* groupby(col)[field].first() for one key
FirstWhere(rows, col, key, field) ==
    rows[CHOOSE i \in 1..Len(rows) :
            /\ rows[i][col] = key
            /\ \A j \in 1..(i - 1) : rows[j][col] # key][field]

HasRows(rows, col, key) == \E i \in 1..Len(rows) : rows[i][col] = key

\* _prepare_data, lines 143-158 and 183-199: the sums of one group and the
\* five metrics derived from them
EntityMetrics(id, campaign_id, rows, col) ==
    LET spend == SumWhere(rows, col, id, "spend")
        impressions == SumWhere(rows, col, id, "impressions")
        clicks == SumWhere(rows, col, id, "clicks")
        conversions == SumWhere(rows, col, id, "conversions")
    IN  [id |-> id, campaign_id |-> campaign_id,
         spend |-> spend, impressions |-> impressions,
         clicks |-> clicks, conversions |-> conversions,
         ctr |-> Ratio(clicks, impressions, 100),
         cpm |-> Ratio(spend, impressions, 1000),
         cpc |-> Ratio(spend, clicks, 1),
         conversion_rate |-> Ratio(conversions, clicks, 100),
         cpa |-> Ratio(spend, conversions, 1)]

\* mutation of SpendAtLeast: the filter lets every entity through
SpendAtLeastOff(spend, minimum) == TRUE

\* campaigns['spend'] >= self.min_campaign_spend,
\* ad_sets['spend'] >= self.min_adset_spend
SpendAtLeast(spend, minimum) == spend >= minimum

RECURSIVE KeepSpend(_, _)
KeepSpend(frame, minimum) ==
    IF frame = <<>> THEN <<>>
    ELSE (IF SpendAtLeast(Head(frame).spend, minimum) THEN <<Head(frame)>> ELSE <<>>)
            \o KeepSpend(Tail(frame), minimum)

RECURSIVE MergeCampaigns(_, _)
\* campaigns_df.merge(campaign_insights, how='inner'), in the order of
\* campaigns_df
MergeCampaigns(ids, rows) ==
    IF ids = <<>> THEN <<>>
    ELSE (IF HasRows(rows, "campaign_id", Head(ids))
          THEN <<EntityMetrics(Head(ids), Head(ids), rows, "campaign_id")>>
          ELSE <<>>)
            \o MergeCampaigns(Tail(ids), rows)

RECURSIVE MergeAdSets(_, _)
\* ad_sets_df.merge(adset_insights, how='inner'); campaign_id is the
\* 'first' of the group
MergeAdSets(ids, rows) ==
    IF ids = <<>> THEN <<>>
    ELSE (IF HasRows(rows, "adset_id", Head(ids))
          THEN <<EntityMetrics(Head(ids),
                               FirstWhere(rows, "adset_id", Head(ids), "campaign_id"),
                               rows, "adset_id")>>
          ELSE <<>>)
            \o MergeAdSets(Tail(ids), rows)

\* _prepare_data: None without campaigns or insights, else the frames of
\* the campaigns and ad sets that have insights and enough spend
PrepareData(opt, in) ==
    IF in.campaigns = <<>> \/ in.insights = <<>> THEN [prepared |-> FALSE]
    ELSE [prepared |-> TRUE,
          campaigns |-> KeepSpend(MergeCampaigns(in.campaigns, in.insights),
                                  opt.min_campaign_spend),
          ad_sets |-> IF in.ad_sets = <<>> THEN <<>>
                      ELSE KeepSpend(MergeAdSets(in.ad_sets, in.insights),
                                     opt.min_adset_spend)]

RECURSIVE SumMetric(_, _)
SumMetric(frame, metric) ==
    IF frame = <<>> THEN 0
    ELSE (IF Head(frame)[metric] = NaN THEN 0 ELSE Head(frame)[metric])
            + SumMetric(Tail(frame), metric)

RECURSIVE CountMetric(_, _)
CountMetric(frame, metric) ==
    IF frame = <<>> THEN 0
    ELSE (IF Head(frame)[metric] = NaN THEN 0 ELSE 1) + CountMetric(Tail(frame), metric)

\* frame[metric].mean(): NaN values are skipped, NaN when none is left
MeanMetric(frame, metric) ==
    IF CountMetric(frame, metric) = 0 THEN NaN
    ELSE SumMetric(frame, metric) \div CountMetric(frame, metric)

\* avg_metrics = {...}
AvgMetrics(frame) ==
    [m \in {"ctr", "cpm", "cpc", "conversion_rate", "cpa"} |-> MeanMetric(frame, m)]

\* (entity[m] / avg[m]) * 100 if avg[m] > 0 else 0; a NaN result is skipped
\* by the scorer just as 0 is
DirectIndex(e, avg, m) ==
    IF avg[m] > 0 /\ e[m] # NaN THEN (e[m] * 100) \div avg[m] ELSE 0

\* (avg[m] / entity[m]) * 100 if entity[m] > 0 else 0
InverseIndex(e, avg, m) ==
    IF e[m] > 0 /\ avg[m] # NaN THEN (avg[m] * 100) \div e[m] ELSE 0

\* the five indices of efficiency_metrics
EfficiencyIndices(e, avg) ==
    [ctr_index |-> DirectIndex(e, avg, "ctr"),
     cpm_index |-> InverseIndex(e, avg, "cpm"),
     cpc_index |-> InverseIndex(e, avg, "cpc"),
     conversion_rate_index |-> DirectIndex(e, avg, "conversion_rate"),
     cpa_index |-> InverseIndex(e, avg, "cpa")]

\* the efficiency_metrics entry of one entity
EfficiencyEntry(e, avg) ==
    [id |-> e.id, campaign_id |-> e.campaign_id, spend |-> e.spend,
     impressions |-> e.impressions, clicks |-> e.clicks,
     conversions |-> e.conversions, ctr |-> e.ctr, cpm |-> e.cpm, cpc |-> e.cpc,
     conversion_rate |-> e.conversion_rate, cpa |-> e.cpa,
     efficiency_score |-> CalculateEfficiencyScore(EfficiencyIndices(e, avg))]

\* the recommendation of _analyze_campaigns / _analyze_adsets for one entry:
\* below `low` it is 'high' with the share highPct of the spend, below
\* `mid` it is 'medium' with the share midPct
InefficiencyRecommendation(type, entry, low, mid, highPct, midPct) ==
    IF entry.efficiency_score < low * ScoreScale
    THEN <<[type |-> type, id |-> entry.id, campaign_id |-> entry.campaign_id,
            severity |-> "high", potential_savings |-> entry.spend * highPct]>>
    ELSE IF entry.efficiency_score < mid * ScoreScale
    THEN <<[type |-> type, id |-> entry.id, campaign_id |-> entry.campaign_id,
            severity |-> "medium", potential_savings |-> entry.spend * midPct]>>
    ELSE <<>>

NoEntityResults == [metrics |-> <<>>, recommendations |-> <<>>]

RECURSIVE CampaignEntries(_, _, _)
\* the loop of _analyze_campaigns over `rest`, avg taken over the frame
CampaignEntries(rest, avg, opt) ==
    IF rest = <<>> THEN NoEntityResults
    ELSE LET tail == CampaignEntries(Tail(rest), avg, opt)
             entry == EfficiencyEntry(Head(rest), avg)
         IN  IF Head(rest).impressions < opt.min_data_threshold THEN tail
             ELSE [metrics |-> <<entry>> \o tail.metrics,
                   recommendations |->
                       InefficiencyRecommendation("campaign_budget_inefficiency",
                                                  entry, 40, 60, 30, 15)
                         \o tail.recommendations]

\* _analyze_campaigns
AnalyzeCampaigns(frame, opt) == CampaignEntries(frame, AvgMetrics(frame), opt)

RECURSIVE AdSetEntries(_, _, _)
\* the inner loop of _analyze_adsets over the ad sets of one campaign
AdSetEntries(rest, avg, opt) ==
    IF rest = <<>> THEN NoEntityResults
    ELSE LET tail == AdSetEntries(Tail(rest), avg, opt)
             entry == EfficiencyEntry(Head(rest), avg)
         IN  IF 2 * Head(rest).impressions < opt.min_data_threshold THEN tail
             ELSE [metrics |-> <<entry>> \o tail.metrics,
                   recommendations |->
                       InefficiencyRecommendation("adset_budget_inefficiency",
                                                  entry, 30, 50, 50, 25)
                         \o tail.recommendations]

RECURSIVE OfCampaign(_, _)
OfCampaign(frame, campaign_id) ==
    IF frame = <<>> THEN <<>>
    ELSE (IF Head(frame).campaign_id = campaign_id THEN <<Head(frame)>> ELSE <<>>)
            \o OfCampaign(Tail(frame), campaign_id)

\* the campaign ids in the order groupby('campaign_id') yields them
CampaignOrder == <<"c1", "c2", "c3">>

RECURSIVE AdSetGroups(_, _, _)
\* the outer loop of _analyze_adsets: campaigns with one ad set are skipped
AdSetGroups(ids, frame, opt) ==
    IF ids = <<>> THEN NoEntityResults
    ELSE LET tail == AdSetGroups(Tail(ids), frame, opt)
             group == OfCampaign(frame, Head(ids))
             here == IF Len(group) < 2 THEN NoEntityResults
                     ELSE AdSetEntries(group, AvgMetrics(group), opt)
         IN  [metrics |-> here.metrics \o tail.metrics,
              recommendations |-> here.recommendations \o tail.recommendations]

\* _analyze_adsets
AnalyzeAdSets(frame, opt) == AdSetGroups(CampaignOrder, frame, opt)

\* whether value a is sorted before value b: NaN goes last
SortsBefore(a, b, ascending) ==
    IF a = NaN THEN FALSE
    ELSE IF b = NaN THEN TRUE
    ELSE IF ascending THEN a < b ELSE a > b

RECURSIVE InsertByMetric(_, _, _, _)
InsertByMetric(sorted, e, metric, ascending) ==
    IF sorted = <<>> THEN <<e>>
    ELSE IF SortsBefore(e[metric], Head(sorted)[metric], ascending)
         THEN <<e>> \o sorted
         ELSE <<Head(sorted)>> \o InsertByMetric(Tail(sorted), e, metric, ascending)

RECURSIVE SortByMetric(_, _, _)
\* campaigns_df.sort_values(metric, ascending=...): rows with equal values
\* keep their order
SortByMetric(frame, metric, ascending) ==
    IF frame = <<>> THEN <<>>
    ELSE InsertByMetric(SortByMetric(SubSeq(frame, 1, Len(frame) - 1), metric, ascending),
                        frame[Len(frame)], metric, ascending)

\* the metric _analyze_budget_allocation ranks the campaigns by
PerfMetric(frame) ==
    IF CountMetric(frame, "cpa") > 0 THEN "cpa"
    ELSE IF CountMetric(frame, "conversion_rate") > 0 THEN "conversion_rate"
    ELSE "ctr"

RECURSIVE SpendOf(_)
SpendOf(frame) ==
    IF frame = <<>> THEN 0 ELSE Head(frame).spend + SpendOf(Tail(frame))

\* buckets that leave out a cumulative_spend_pct equal to their upper edge
QuartilePositionsOpen(ranked, above, upto) ==
    {i \in 1..Len(ranked) :
        /\ SpendOf(SubSeq(ranked, 1, i)) * 100 > above * SpendOf(ranked)
        /\ SpendOf(SubSeq(ranked, 1, i)) * 100 < upto * SpendOf(ranked)}

\* the positions of the ranked frame whose cumulative_spend_pct is above
\* `above` percent and at most `upto` percent
QuartilePositions(ranked, above, upto) ==
    {i \in 1..Len(ranked) :
        /\ SpendOf(SubSeq(ranked, 1, i)) * 100 > above * SpendOf(ranked)
        /\ SpendOf(SubSeq(ranked, 1, i)) * 100 <= upto * SpendOf(ranked)}

RECURSIVE SpendAt(_, _)
SpendAt(ranked, positions) ==
    IF positions = {} THEN 0
    ELSE LET i == CHOOSE p \in positions : TRUE
         IN  ranked[i].spend + SpendAt(ranked, positions \ {i})

\* one entry of quartile_spend, with the campaigns it counts
Quartile(ranked, above, upto) ==
    LET positions == QuartilePositions(ranked, above, upto)
    IN  [spend |-> SpendAt(ranked, positions),
         campaign_count |-> Cardinality(positions),
         members |-> {ranked[i].id : i \in positions}]

NoDistribution ==
    [computed |-> FALSE, recommendations |-> <<>>]

\* the 'budget_allocation_imbalance' recommendation, if any
ImbalanceRecommendation(top, bottom) ==
    IF bottom.spend * 10 > top.spend * 15
    THEN <<[type |-> "budget_allocation_imbalance", id |-> "account",
            campaign_id |-> "account", severity |-> "high",
            potential_savings |-> bottom.spend * 50]>>
    ELSE IF bottom.spend * 10 > top.spend * 12
    THEN <<[type |-> "budget_allocation_imbalance", id |-> "account",
            campaign_id |-> "account", severity |-> "medium",
            potential_savings |-> bottom.spend * 30]>>
    ELSE <<>>

\* _analyze_budget_allocation
AnalyzeBudgetAllocation(frame) ==
    IF frame = <<>> \/ SpendOf(frame) = 0 THEN NoDistribution
    ELSE LET metric == PerfMetric(frame)
             ranked == SortByMetric(frame, metric, metric = "cpa")
             top == Quartile(ranked, 0 - 1, 25)
             bottom == Quartile(ranked, 75, 100)
         IN  [computed |-> TRUE,
              total_spend |-> SpendOf(frame),
              performance_metric |-> metric,
              quartiles |-> [top_25 |-> top,
                             mid_high |-> Quartile(ranked, 25, 50),
                             mid_low |-> Quartile(ranked, 50, 75),
                             bottom_25 |-> bottom],
              recommendations |-> ImbalanceRecommendation(top, bottom)]

RECURSIVE InsertBySavings(_, _)
InsertBySavings(sorted, rec) ==
    IF sorted = <<>> THEN <<rec>>
    ELSE IF rec.potential_savings > Head(sorted).potential_savings
         THEN <<rec>> \o sorted
         ELSE <<Head(sorted)>> \o InsertBySavings(Tail(sorted), rec)

RECURSIVE SortBySavings(_)
\* sorted(recommendations, key=potential_savings, reverse=True)
SortBySavings(recs) ==
    IF recs = <<>> THEN <<>>
    ELSE InsertBySavings(SortBySavings(SubSeq(recs, 1, Len(recs) - 1)), recs[Len(recs)])

RECURSIVE SavingsSum(_)
SavingsSum(recs) ==
    IF recs = <<>> THEN 0 ELSE Head(recs).potential_savings + SavingsSum(Tail(recs))

EmptyBudgetResults ==
    [done |-> TRUE, campaign_metrics |-> <<>>, adset_metrics |-> <<>>,
     distribution |-> NoDistribution, recommendations |-> <<>>,
     estimated_savings |-> 0]

\* BudgetOptimizer.analyze, the results dict once every sub-analysis is in
BudgetResults(campaign_results, adset_results, allocation) ==
    LET recs == campaign_results.recommendations \o adset_results.recommendations
                    \o allocation.recommendations
    IN  [done |-> TRUE,
         campaign_metrics |-> campaign_results.metrics,
         adset_metrics |-> adset_results.metrics,
         distribution |-> allocation,
         recommendations |-> SortBySavings(recs),
         estimated_savings |-> SavingsSum(recs)]

\* BudgetOptimizer.analyze
BudgetAnalyze(opt, in) ==
    LET prepared_data == PrepareData(opt, in)
    IN  IF ~prepared_data.prepared THEN EmptyBudgetResults
        ELSE BudgetResults(AnalyzeCampaigns(prepared_data.campaigns, opt),
                           AnalyzeAdSets(prepared_data.ad_sets, opt),
                           AnalyzeBudgetAllocation(prepared_data.campaigns))

(***************************************************************************)
(* SpecBudget: a BudgetOptimizer is constructed and analyses one small     *)
(* account                                                                 *)
(***************************************************************************)
MaxBudgetRows == 4

\* the ad sets, in the order of ad_sets_df, and the campaign each belongs to
AdSetIds == <<"a1", "a2", "b1", "d1">>
AdSetCampaign(a) ==
    CASE a \in {"a1", "a2"} -> "c1" [] a = "b1" -> "c2" [] a = "d1" -> "c3"

\* the spend and the <<impressions, clicks, conversions>> of one insight row
RowSpends == <<10, 60>>
RowCounts == <<<<1000, 100, 50>>, <<500, 10, 1>>>>

\* the insight rows an account can hold, numbered from 0
BudgetRowCount == Len(AdSetIds) * Len(RowSpends) * Len(RowCounts)
BudgetRow(k) ==
    LET a == AdSetIds[(k \div (Len(RowSpends) * Len(RowCounts))) + 1]
        s == RowSpends[((k \div Len(RowCounts)) % Len(RowSpends)) + 1]
        p == RowCounts[(k % Len(RowCounts)) + 1]
    IN  [campaign_id |-> AdSetCampaign(a), adset_id |-> a, spend |-> s,
         impressions |-> p[1], clicks |-> p[2], conversions |-> p[3]]

RECURSIVE RowChoices(_, _)
\* the ways of picking n rows, each multiset of rows once
RowChoices(n, lowest) ==
    IF n = 0 THEN {<<>>}
    ELSE UNION {{<<k>> \o rest : rest \in RowChoices(n - 1, k)} :
                    k \in lowest..(BudgetRowCount - 1)}

\* the thresholds a caller constructs the optimizer with: the defaults, the
\* ones EnhancedAdAccountAnalyzer passes, and a negative minimum spend with
\* a confidence level of 150 percent
OptimizerArguments ==
    {<<100, 50, 90>>, <<50, 20, 90>>, <<0 - 1, 50, 150>>}

InitBudget ==
    /\ optimizer = [constructed |-> FALSE]
    /\ budgetOut = [done |-> FALSE]
    /\ \E n \in 0..MaxBudgetRows :
       \E choice \in RowChoices(n, 0) :
          budgetIn = [campaigns |-> CampaignOrder,
                      ad_sets |-> AdSetIds,
                      insights |-> [i \in 1..n |-> BudgetRow(choice[i])]]
    /\ IdleAudit /\ IdlePrio /\ IdleFatigue /\ IdleAudience /\ IdleScore
    /\ IdleMetrics /\ IdleBatch /\ IdleImprove /\ IdleAnalysis /\ IdleCache

ConstructOptimizer ==
    /\ ~optimizer.constructed
    /\ \E args \in OptimizerArguments :
          optimizer' = NewBudgetOptimizer(args[1], args[2], min_data_threshold, args[3])
    /\ UNCHANGED <<budgetIn, budgetOut>>
    /\ UNCHANGED <<auditVars, prioVars, fatigueVars, audienceVars, scoreVars,
                   metricVars, batchVars, improveVars, analysisVars, cacheVars>>

AnalyzeBudget ==
    /\ optimizer.constructed
    /\ ~budgetOut.done
    /\ budgetOut' = BudgetAnalyze(optimizer, budgetIn)
    /\ UNCHANGED <<optimizer, budgetIn>>
    /\ UNCHANGED <<auditVars, prioVars, fatigueVars, audienceVars, scoreVars,
                   metricVars, batchVars, improveVars, analysisVars, cacheVars>>

NextBudget == ConstructOptimizer \/ AnalyzeBudget

SpecBudget == InitBudget /\ [][NextBudget]_vars

\* the summed spend of a campaign / an ad set over the insight rows
CampaignSpend(c) == SumWhere(budgetIn.insights, "campaign_id", c, "spend")
AdSetSpend(a) == SumWhere(budgetIn.insights, "adset_id", a, "spend")

\* the campaigns counted in some quartile bucket
QuartileMembers ==
    IF budgetOut.distribution.computed
    THEN UNION {budgetOut.distribution.quartiles[q].members :
                    q \in {"top_25", "mid_high", "mid_low", "bottom_25"}}
    ELSE {}

\* C11: no campaign whose summed spend is below min_campaign_spend and no
\* ad set whose summed spend is below min_adset_spend has an entry in the
\* efficiency_metrics, is the subject of a recommendation or is counted in
\* a quartile bucket of BudgetOptimizer.analyze.
C11_BelowMinSpendNeverScored ==
    budgetOut.done =>
        /\ \A i \in 1..Len(budgetOut.campaign_metrics) :
              CampaignSpend(budgetOut.campaign_metrics[i].id)
                  >= optimizer.min_campaign_spend
        /\ \A i \in 1..Len(budgetOut.adset_metrics) :
              AdSetSpend(budgetOut.adset_metrics[i].id) >= optimizer.min_adset_spend
        /\ \A i \in 1..Len(budgetOut.recommendations) :
              LET rec == budgetOut.recommendations[i]
              IN  /\ rec.type = "campaign_budget_inefficiency"
                      => CampaignSpend(rec.id) >= optimizer.min_campaign_spend
                  /\ rec.type = "adset_budget_inefficiency"
                      => AdSetSpend(rec.id) >= optimizer.min_adset_spend
        /\ \A c \in QuartileMembers : CampaignSpend(c) >= optimizer.min_campaign_spend

\* an analysis that scored campaign c1 and its two ad sets and left out
\* campaign c2 and its ad set b1, which have insight rows and too little
\* spend
C11_Witness ==
    /\ budgetOut.done
    /\ optimizer.min_campaign_spend > 0
    /\ CampaignSpend("c2") > 0 /\ CampaignSpend("c2") < optimizer.min_campaign_spend
    /\ AdSetSpend("b1") > 0 /\ AdSetSpend("b1") < optimizer.min_adset_spend
    /\ Len(budgetOut.campaign_metrics) = 1
    /\ budgetOut.campaign_metrics[1].id = "c1"
    /\ Len(budgetOut.adset_metrics) = 2
    /\ QuartileMembers = {"c1"}

\* thresholds that make sense: no negative minimum, a confidence level
\* (in percent) between 0 and 100
ValidThresholds(opt) ==
    /\ opt.min_campaign_spend >= 0
    /\ opt.min_adset_spend >= 0
    /\ opt.min_data_threshold >= 0
    /\ opt.confidence_level >= 0 /\ opt.confidence_level <= 100

\* C17: constructing an analyzer with an invalid configuration raises at
\* construction time, so no analyzer object with invalid thresholds exists
\* and none ever runs an analysis.
C17_InvalidThresholdsRejected ==
    /\ optimizer.constructed => ValidThresholds(optimizer)
    /\ budgetOut.done => ValidThresholds(optimizer)

QuartileNames == {"top_25", "mid_high", "mid_low", "bottom_25"}

\* the campaigns _prepare_data hands to _analyze_budget_allocation
PreparedCampaigns == PrepareData(optimizer, budgetIn).campaigns

\* C28: in the quartile analysis every prepared campaign falls into exactly
\* one of the buckets top_25, mid_high, mid_low and bottom_25: the four
\* campaign_count values sum to the number of campaigns and the four spend
\* values sum to total_spend.
C28_QuartilesPartitionCampaigns ==
    (budgetOut.done /\ budgetOut.distribution.computed) =>
        \E q \in {budgetOut.distribution.quartiles} :
        \E prepared \in {PreparedCampaigns} :
            /\ \A i \in 1..Len(prepared) :
                  Cardinality({n \in QuartileNames : prepared[i].id \in q[n].members}) = 1
            /\ q.top_25.campaign_count + q.mid_high.campaign_count
                  + q.mid_low.campaign_count + q.bottom_25.campaign_count
                  = Len(prepared)
            /\ q.top_25.spend + q.mid_high.spend + q.mid_low.spend + q.bottom_25.spend
                  = budgetOut.distribution.total_spend
            /\ budgetOut.distribution.total_spend = SpendOf(prepared)

\* three campaigns whose cumulative spend is exactly 25, 50 and 100 percent
C28_Witness ==
    /\ budgetOut.done /\ budgetOut.distribution.computed
    /\ Len(PreparedCampaigns) = 3
    /\ budgetOut.distribution.quartiles.top_25.campaign_count = 1
    /\ budgetOut.distribution.quartiles.mid_high.campaign_count = 1
    /\ budgetOut.distribution.quartiles.bottom_25.campaign_count = 1
    /\ 4 * budgetOut.distribution.quartiles.top_25.spend
          = budgetOut.distribution.total_spend
    /\ 4 * budgetOut.distribution.quartiles.mid_high.spend
          = budgetOut.distribution.total_spend

(***************************************************************************)
(* Derived metrics: the four places of the core that turn the summed       *)
(* counts [impressions, clicks, spend, conversions, revenue] of an entity  *)
(* or aggregate into ctr, cpm, cpc, conversion_rate, cpa and roas.  Values *)
(* are thousandths, rounded down; NaN and Inf stand for the floats nan and *)
(* inf, NotEmitted for a key the place does not emit.                      *)
(***************************************************************************)
Inf == 0 - 2
NotEmitted == 0 - 3

\* (a / b) * factor where the code has checked that b > 0
Quotient(a, b, factor) == (a * factor * RateScale) \div b

\* (a / b) * factor on two pandas columns: x/0 is inf, 0/0 is nan
ColumnQuotient(a, b, factor) ==
    IF b # 0 THEN Quotient(a, b, factor) ELSE IF a = 0 THEN NaN ELSE Inf

\* _analyze_account_overview, lines 266-314: every metric starts as 0 and is
\* computed only under its guard
AccountOverview(t) ==
    [done |-> TRUE, place |-> "account_overview",
     ctr |-> IF t.impressions > 0 THEN Quotient(t.clicks, t.impressions, 100) ELSE 0,
     cpm |-> IF t.impressions > 0 THEN Quotient(t.spend, t.impressions, 1000) ELSE 0,
     cpc |-> IF t.clicks > 0 THEN Quotient(t.spend, t.clicks, 1) ELSE 0,
     conversion_rate |-> IF t.clicks > 0 /\ t.conversions > 0
                         THEN Quotient(t.conversions, t.clicks, 100) ELSE 0,
     cpa |-> IF t.conversions > 0 THEN Quotient(t.spend, t.conversions, 1) ELSE 0,
     roas |-> IF t.spend > 0 /\ t.revenue > 0
              THEN Quotient(t.revenue, t.spend, 1) ELSE 0]

\* calculate_performance_metrics, lines 47-74: every else branch assigns 0
CalculatePerformanceMetrics(t) ==
    [done |-> TRUE, place |-> "calculate_performance_metrics",
     ctr |-> IF t.impressions > 0 THEN Quotient(t.clicks, t.impressions, 100) ELSE 0,
     cpm |-> IF t.impressions > 0 THEN Quotient(t.spend, t.impressions, 1000) ELSE 0,
     cpc |-> IF t.clicks > 0 THEN Quotient(t.spend, t.clicks, 1) ELSE 0,
     conversion_rate |-> IF t.clicks > 0 /\ t.conversions > 0
                         THEN Quotient(t.conversions, t.clicks, 100) ELSE 0,
     cpa |-> IF t.conversions > 0 THEN Quotient(t.spend, t.conversions, 1) ELSE 0,
     roas |-> IF t.spend > 0 /\ t.revenue > 0
              THEN Quotient(t.revenue, t.spend, 1) ELSE 0]

\* the efficiency_metrics a default BudgetOptimizer returns for an account
\* of one campaign whose insight rows sum to t
CampaignEfficiencyMetrics(t) ==
    BudgetAnalyze(NewBudgetOptimizer(100, 50, min_data_threshold, 90),
                  [campaigns |-> <<"c1">>, ad_sets |-> <<>>,
                   insights |-> <<[campaign_id |-> "c1", adset_id |-> "a1",
                                   spend |-> t.spend, impressions |-> t.impressions,
                                   clicks |-> t.clicks,
                                   conversions |-> t.conversions]>>]).campaign_metrics

\* the metrics of the one entry of CampaignEfficiencyMetrics
EfficiencyMetricsOf(entry) ==
    [done |-> TRUE, place |-> "efficiency_metrics",
     ctr |-> entry.ctr, cpm |-> entry.cpm, cpc |-> entry.cpc,
     conversion_rate |-> entry.conversion_rate, cpa |-> entry.cpa,
     roas |-> NotEmitted]

\* _analyze_segment_type, lines 182-203, for a segment that passed the
\* minimum size filter: plain column divisions, except that cpa divides by
\* the conversions with 0 replaced by nan
SegmentMetrics(t) ==
    [done |-> TRUE, place |-> "segment_metrics",
     ctr |-> ColumnQuotient(t.clicks, t.impressions, 100),
     cpm |-> ColumnQuotient(t.spend, t.impressions, 1000),
     cpc |-> ColumnQuotient(t.spend, t.clicks, 1),
     conversion_rate |-> ColumnQuotient(t.conversions, t.clicks, 100),
     cpa |-> IF t.conversions = 0 THEN NaN ELSE Quotient(t.spend, t.conversions, 1),
     roas |-> NotEmitted]

(***************************************************************************)
(* SpecMetrics: one place derives the metrics of one set of sums           *)
(***************************************************************************)
InitMetrics ==
    /\ totals \in [impressions : {0, 100, 1000}, clicks : {0, 50},
                    spend : {0, 100}, conversions : {0, 5}, revenue : {0, 300}]
    /\ derived = [done |-> FALSE]
    /\ IdleAudit /\ IdlePrio /\ IdleFatigue /\ IdleAudience /\ IdleScore
    /\ IdleBudget /\ IdleBatch /\ IdleImprove /\ IdleAnalysis /\ IdleCache

UnchangedByMetrics ==
    UNCHANGED <<totals, auditVars, prioVars, fatigueVars, audienceVars, scoreVars,
                budgetVars, batchVars, improveVars, analysisVars, cacheVars>>

DeriveOverview ==
    /\ ~derived.done
    /\ derived' = AccountOverview(totals)
    /\ UnchangedByMetrics

DerivePerformanceMetrics ==
    /\ ~derived.done
    /\ derived' = CalculatePerformanceMetrics(totals)
    /\ UnchangedByMetrics

\* the campaign has an entry only with enough spend and impressions
DeriveEfficiencyMetrics ==
    /\ ~derived.done
    /\ \E entries \in {CampaignEfficiencyMetrics(totals)} :
          /\ entries # <<>>
          /\ derived' = EfficiencyMetricsOf(entries[1])
    /\ UnchangedByMetrics

\* the segment is one of at least two that have min_segment_size impressions
DeriveSegmentMetrics ==
    /\ ~derived.done
    /\ LargeEnough(totals, min_segment_size)
    /\ derived' = SegmentMetrics(totals)
    /\ UnchangedByMetrics

NextMetrics ==
    \/ DeriveOverview
    \/ DerivePerformanceMetrics
    \/ DeriveEfficiencyMetrics
    \/ DeriveSegmentMetrics

SpecMetrics == InitMetrics /\ [][NextMetrics]_vars

\* C12: wherever the core derives cpa (account overview,
\* calculate_performance_metrics, the scorer's per-entity metrics, the
\* audience segment metrics), conversions = 0 gives cpa = NaN.
C12_CpaIsNaNWithoutConversions ==
    (derived.done /\ totals.conversions = 0) => derived.cpa = NaN

\* C13: every rate metric emitted for a zero denominator is 0: ctr and cpm
\* with impressions = 0, conversion_rate with clicks = 0, roas with
\* spend = 0, in the account overview, the per-entity efficiency metrics and
\* the segment_metrics records.
C13_RatesAreZeroOnZeroDenominator ==
    (derived.done /\ derived.place \in {"account_overview", "efficiency_metrics",
                                        "segment_metrics"})
    => /\ totals.impressions = 0 => derived.ctr = 0 /\ derived.cpm = 0
       /\ totals.clicks = 0 => derived.conversion_rate = 0
       /\ (totals.spend = 0 /\ derived.roas # NotEmitted) => derived.roas = 0

(***************************************************************************)
(* _calculate_improvement_potential.  Impacts are kept in thousandths and  *)
(* the percentage as the fraction num / den.                               *)
(***************************************************************************)

\* the words of lines 1012-1020 that occur in a recommendation type
TypeWords(rec_type) ==
    CASE rec_type \in {"campaign_budget_inefficiency", "adset_budget_inefficiency"}
            -> {"budget"}
      [] rec_type = "budget_allocation_imbalance" -> {"budget", "allocation"}
      [] rec_type \in {"audience_optimization", "audience_expansion"} -> {"audience"}
      [] rec_type = "cross_segment_ctr_optimization" -> {"segment"}
      [] rec_type = "ad_fatigue" -> {"fatigue"}
      [] OTHER -> {}

\* impact by severity, lines 1003-1009, in hundredths
SeverityImpact(severity) ==
    CASE severity = "high" -> 200
      [] severity = "medium" -> 100
      [] severity = "low" -> 50
      [] OTHER -> 0

\* the factor of lines 1012-1020, in tenths
TypeFactor(rec_type) ==
    IF TypeWords(rec_type) \cap {"budget", "allocation"} # {} THEN 12
    ELSE IF TypeWords(rec_type) \cap {"audience", "segment"} # {} THEN 11
    ELSE IF "fatigue" \in TypeWords(rec_type) THEN 9
    ELSE 10

\* base_improvement, in thousandths
RECURSIVE BaseImprovement(_)
BaseImprovement(recommendations) ==
    IF recommendations = <<>> THEN 0
    ELSE SeverityImpact(Head(recommendations).severity)
            * TypeFactor(Head(recommendations).type)
         + BaseImprovement(Tail(recommendations))

\* a percentage left as it was computed
CapPercentageOff(num, den) == [done |-> TRUE, num |-> num, den |-> den]

\* min(scaled_improvement * 2.5, 50.0)
CapPercentage(num, den) ==
    IF num >= 50 * den THEN [done |-> TRUE, num |-> 50, den |-> 1]
    ELSE [done |-> TRUE, num |-> num, den |-> den]

\* _calculate_improvement_potential: scaling_factor is min(1.0, 10 / len)
CalculateImprovementPotential(recommendations, total_spend) ==
    IF recommendations = <<>> \/ total_spend <= 0
    THEN [done |-> TRUE, num |-> 0, den |-> 1]
    ELSE IF Len(recommendations) <= 10
         THEN CapPercentage(BaseImprovement(recommendations) * 25, 1000 * 10)
         ELSE CapPercentage(BaseImprovement(recommendations) * 10 * 25,
                            Len(recommendations) * 1000 * 10)

(***************************************************************************)
(* SpecImprove: the improvement potential of a list of up to               *)
(* MaxImproveRecs recommendations, some copies of one recommendation       *)
(* followed by copies of another, and of a total spend                     *)
(***************************************************************************)
MaxImproveRecs == 12

ImproveRecs ==
    [type : {"budget_allocation_imbalance", "audience_optimization", "ad_fatigue",
             "creative_optimization", "gender_ctr_optimization",
             "cross_segment_ctr_optimization"},
     severity : {"high", "medium", "low", "severe"},
     potential_savings : {0}]

InitImprove ==
    /\ \E n \in 0..MaxImproveRecs, first \in ImproveRecs, second \in ImproveRecs,
          total_spend \in {0 - 100, 0, 5000} :
       \E k \in 0..n :
          improveIn = [recommendations |-> [i \in 1..n |-> IF i <= k THEN first
                                                           ELSE second],
                       total_spend |-> total_spend]
    /\ improvement = [done |-> FALSE]
    /\ IdleAudit /\ IdlePrio /\ IdleFatigue /\ IdleAudience /\ IdleScore
    /\ IdleBudget /\ IdleMetrics /\ IdleBatch /\ IdleAnalysis /\ IdleCache

CalculateImprovement ==
    /\ ~improvement.done
    /\ improvement' = CalculateImprovementPotential(improveIn.recommendations,
                                                    improveIn.total_spend)
    /\ UNCHANGED <<improveIn, auditVars, prioVars, fatigueVars, audienceVars,
                   scoreVars, budgetVars, metricVars, batchVars, analysisVars, cacheVars>>

NextImprove == CalculateImprovement

SpecImprove == InitImprove /\ [][NextImprove]_vars

\* C19: potential_improvement_percentage is within 0..50 for every list of
\* recommendations and every total spend, and is 0 when there are no
\* recommendations or the total spend is not positive.
C19_ImprovementWithinBounds ==
    improvement.done =>
        /\ improvement.den > 0
        /\ 0 <= improvement.num /\ improvement.num <= 50 * improvement.den
        /\ (improveIn.recommendations = <<>> \/ improveIn.total_spend <= 0)
              => improvement.num = 0

\* more than ten high-impact recommendations: the scaled sum times 2.5
\* passes 50 and the percentage returned is the cap
C19_Witness ==
    /\ improvement.done
    /\ improveIn.total_spend > 0
    /\ Len(improveIn.recommendations) > 10
    /\ BaseImprovement(improveIn.recommendations) * 10 * 25
          > 50 * Len(improveIn.recommendations) * 1000 * 10
    /\ improvement.num = 50 /\ improvement.den = 1

\* the types the Budget Efficiency Scorer and the Audience Segment Analyzer
\* emit
BudgetTypes ==
    {"budget_allocation_imbalance", "campaign_budget_inefficiency",
     "adset_budget_inefficiency"}
AudienceAnalyzerTypes ==
    {RecommendationType(segment_type, metric) :
        segment_type \in {"age", "gender"}, metric \in {"ctr", "conversion_rate", "cpa"}}
    \cup {RecommendationType("cross_segment", metric) :
            metric \in {"ctr", "conversion_rate"}}

\* the factor C30 gives a recommendation, by its producer, in tenths
ProducerFactor(rec_type) ==
    IF rec_type \in BudgetTypes THEN 12
    ELSE IF rec_type \in AudienceAnalyzerTypes THEN 11
    ELSE 9

RECURSIVE ProducerWeighted(_)
ProducerWeighted(recommendations) ==
    IF recommendations = <<>> THEN 0
    ELSE SeverityImpact(Head(recommendations).severity)
            * ProducerFactor(Head(recommendations).type)
         + ProducerWeighted(Tail(recommendations))

\* C30: _calculate_improvement_potential weights every recommendation by
\* the factor of its producer: 1.2 for a budget recommendation, 1.1 for a
\* recommendation of the Audience Segment Analyzer, single-dimension or
\* cross-segment, and 0.9 for an ad-fatigue recommendation.
C30_WeightedByProducer ==
    (/\ improvement.done
     /\ improveIn.total_spend > 0
     /\ improveIn.recommendations # <<>>
     /\ \A i \in 1..Len(improveIn.recommendations) :
           improveIn.recommendations[i].type
               \in BudgetTypes \cup AudienceAnalyzerTypes \cup {"ad_fatigue"})
    => \E recs \in {improveIn.recommendations} :
          improvement =
              IF Len(recs) <= 10
              THEN CapPercentage(ProducerWeighted(recs) * 25, 1000 * 10)
              ELSE CapPercentage(ProducerWeighted(recs) * 10 * 25,
                                 Len(recs) * 1000 * 10)

(***************************************************************************)
(* The audit: EnhancedAdAccountAudit.run_audit and                         *)
(* EnhancedAdAccountAnalyzer.analyze                                       *)
(* account_data is [kind, campaigns, insights, dated, segmented, findings]: *)
(* kind says whether it is a dict; campaigns and insights are "missing"    *)
(* (no such key), "number" (a truthy value that is not a list, such as 5), *)
(* "empty" (the empty list) or "rows"; dated and segmented say whether the *)
(* insight rows carry a date and a segment column (they carry ad_id,       *)
(* impressions and clicks); findings are what the fatigue, audience and    *)
(* creative analyses derive from the rows, in the order they return them.  *)
(* ads and ad_sets are "missing", "bare" (rows without the metric columns) *)
(* or "rows"; spend is the summed spend of the insight rows; raising holds *)
(* the analyses that raise on these rows, their findings being what they   *)
(* had built when they raised.                                             *)
(***************************************************************************)

Truthy(v) == v # None /\ v # ""

\* platform.capitalize() + " Ad Account"
DefaultClientName(platform) ==
    CASE platform = "facebook" -> "Facebook Ad Account"
      [] platform = "tiktok" -> "Tiktok Ad Account"

\* client_name.replace(' ', '_').lower()
Sanitize(client_name) ==
    CASE client_name = "Test Client" -> "test_client"
      [] client_name = "Facebook Ad Account" -> "facebook_ad_account"
      [] client_name = "Tiktok Ad Account" -> "tiktok_ad_account"

\* run_audit, lines 93-105: a missing key gets an empty list and an
\* insights value that is not a list is replaced by one, in place
ValidateAccountData(account_data) ==
    [account_data EXCEPT
        !.campaigns = IF @ = "missing" THEN "empty" ELSE @,
        !.insights = IF @ \in {"missing", "number"} THEN "empty" ELSE @]

\* _process_data: pd.DataFrame(campaigns) raises on a value such as 5; the
\* keys of processed_data are those of lines 122-129
ProcessData(account_data, platform) ==
    IF account_data.campaigns = "number" THEN [raised |-> TRUE]
    ELSE [raised |-> FALSE,
          platform |-> platform,
          campaigns |-> account_data.campaigns,
          ad_sets |-> IF account_data.ad_sets = "missing" THEN "empty"
                      ELSE account_data.ad_sets,
          ads |-> IF account_data.ads = "missing" THEN "empty" ELSE account_data.ads,
          insights |-> account_data.insights,
          daily_insights |-> IF account_data.insights = "rows" /\ account_data.dated
                             THEN "rows" ELSE None]

NoResults == [ran |-> {}, recommendations |-> <<>>]

\* an analysis whose exception leaves what it had built in the results
CaughtOff(raised, results) == results

\* the try/except of _analyze_audience_targeting, _analyze_ad_fatigue and
\* _analyze_creative_performance: an analysis that raised returns None
Caught(raised, results) ==
    IF raised THEN [results EXCEPT !.recommendations = <<>>] ELSE results

\* total_spend of the account overview; the overview is {} without rows
TotalSpend(account_data) ==
    IF account_data.insights = "rows" THEN account_data.spend ELSE 0

\* _analyze_budget_efficiency: processed_data.get('campaign_metrics') is
\* None unless _process_data set the key; otherwise the recommendations come
\* from _generate_budget_reallocation_recommendations
AnalyzeBudgetEfficiency(processed_data, findings) ==
    IF "campaign_metrics" \notin DOMAIN processed_data THEN NoResults
    ELSE [ran |-> {"_generate_budget_reallocation_recommendations"},
          recommendations |-> findings.budget]

\* _analyze_audience_targeting as the analyzer sees it
AudienceTargeting(processed_data, segmented, findings) ==
    IF processed_data.insights # "rows" \/ ~segmented THEN NoResults
    ELSE [ran |-> {"AudienceTargetingAnalyzer.analyze"},
          recommendations |-> findings.audience]

\* _estimate_fatigue_savings: no 'spend' in the fatigue data, so spend = 100;
\* 0.9 of it for 'severe', 0.5 otherwise, times the confidence (in percent)
EstimateFatigueSavings(ad) ==
    (100 * (IF ad.severity = "severe" THEN 90 ELSE 50) * ad.confidence) \div (100 * 100)

\* _analyze_ad_fatigue: one 'ad_fatigue' recommendation per fatigued ad
AnalyzeAdFatigue(processed_data, findings) ==
    IF processed_data.daily_insights = None THEN NoResults
    ELSE [ran |-> {"batch_fatigue_analysis"},
          recommendations |->
              [i \in 1..Len(findings.fatigued_ads) |->
                  [type |-> "ad_fatigue",
                   severity |-> findings.fatigued_ads[i].severity,
                   potential_savings |->
                       EstimateFatigueSavings(findings.fatigued_ads[i])]]]

\* _analyze_creative_performance
AnalyzeCreativePerformance(processed_data, findings) ==
    IF processed_data.insights # "rows" THEN NoResults
    ELSE [ran |-> {"_analyze_creative_performance"},
          recommendations |-> findings.creative]

(***************************************************************************)
(* batch_fatigue_analysis and _analyze_ad_fatigue over the daily insights. *)
(* The insights are kept per ad: [ad_id, impressions, data, numeric]       *)
(* with impressions the ad's summed impressions, data its rows as          *)
(* detect_ad_fatigue takes them and numeric saying whether every value of  *)
(* its frequency column is a number (the column is not coerced by          *)
(* _standardize_columns, so a value such as "N/A" stays a string).         *)
(***************************************************************************)
min_impressions == 1000

\* ad_daily_data['frequency'].corr(ad_daily_data['ctr']), line 86, raises on
\* a frequency value that is not a number; the two early returns come first
DetectRaises(ad) ==
    /\ ~TooFewRows(ad.data)
    /\ DaysRunning(ad.data) >= min_days
    /\ "frequency" \in ad.data.cols /\ "ctr" \in ad.data.cols
    /\ ~ad.numeric

\* ad_totals[ad_totals['impressions'] >= min_impressions], in ad_id order
QualifiedAds(ads, minimum) ==
    SelectSeq(ads, LAMBDA ad : ad.impressions >= minimum)

\* the dict appended for a fatigued ad, lines 257-265
FatiguedAd(ad, result) ==
    [ad_id |-> ad.ad_id, days_running |-> result.days_running,
     conf_num |-> result.conf_num, conf_den |-> result.conf_den,
     severity |-> result.severity]

\* the loop of lines 249-266 from the i-th qualified ad on: nothing catches
\* what detect_ad_fatigue raises
RECURSIVE AnalyzeQualified(_, _, _)
AnalyzeQualified(qualified, i, fatigued_ads) ==
    IF i > Len(qualified) THEN [raised |-> FALSE, fatigued_ads |-> fatigued_ads]
    ELSE IF DetectRaises(qualified[i]) THEN [raised |-> TRUE]
    ELSE LET result == CHOOSE r \in {DetectAdFatigue(qualified[i].data)} : TRUE
         IN  AnalyzeQualified(qualified, i + 1,
                              IF result.is_fatigued
                              THEN Append(fatigued_ads, FatiguedAd(qualified[i], result))
                              ELSE fatigued_ads)

\* fatigued_ads.sort(key=confidence, reverse=True): stable, highest first
RECURSIVE InsertByConfidence(_, _)
InsertByConfidence(sorted, ad) ==
    IF sorted = <<>> THEN <<ad>>
    ELSE IF Head(sorted).conf_num * ad.conf_den >= ad.conf_num * Head(sorted).conf_den
         THEN <<Head(sorted)>> \o InsertByConfidence(Tail(sorted), ad)
         ELSE <<ad>> \o sorted

RECURSIVE SortByConfidence(_)
SortByConfidence(ads) ==
    IF ads = <<>> THEN <<>>
    ELSE InsertByConfidence(SortByConfidence(SubSeq(ads, 1, Len(ads) - 1)),
                            ads[Len(ads)])

\* batch_fatigue_analysis
BatchFatigueAnalysis(ads, minimum) ==
    IF ads = <<>> THEN [raised |-> FALSE, fatigued_ads |-> <<>>]
    ELSE LET looped == AnalyzeQualified(QualifiedAds(ads, minimum), 1, <<>>)
         IN  IF looped.raised THEN looped
             ELSE [raised |-> FALSE,
                   fatigued_ads |-> SortByConfidence(looped.fatigued_ads)]

NoFatigueResults ==
    [done |-> TRUE, is_none |-> TRUE, fatigued_ads |-> <<>>, recommendations |-> <<>>]

\* _analyze_ad_fatigue on daily insights that have the required columns:
\* None without rows or when anything inside the try raises
AdFatigueResults(ads) ==
    IF ads = <<>> THEN NoFatigueResults
    ELSE LET batch == BatchFatigueAnalysis(ads, min_impressions)
         IN  IF batch.raised THEN NoFatigueResults
             ELSE [done |-> TRUE, is_none |-> FALSE,
                   fatigued_ads |-> batch.fatigued_ads,
                   recommendations |->
                       [i \in 1..Len(batch.fatigued_ads) |->
                           [type |-> "ad_fatigue",
                            ad_id |-> batch.fatigued_ads[i].ad_id,
                            severity |-> batch.fatigued_ads[i].severity,
                            potential_savings |->
                                EstimateFatigueSavings(
                                    [severity |-> batch.fatigued_ads[i].severity,
                                     confidence |->
                                         (batch.fatigued_ads[i].conf_num * 100)
                                             \div batch.fatigued_ads[i].conf_den])]]]

(***************************************************************************)
(* SpecBatch: one fatigue analysis of up to MaxBatchAds ads.  Each ad has  *)
(* 2 * MaxRows daily rows, either with every signal of fatigue or with     *)
(* none, few or many impressions, and a frequency column that is numeric   *)
(* or holds a string.                                                      *)
(***************************************************************************)
MaxBatchAds == 3

AdIds == <<"ad1", "ad2", "ad3", "ad4">>
AdShapes == {"declining", "steady"}

AdRows(shape) ==
    IF shape = "declining"
    THEN MakeAd(2 * MaxRows, "daily", 2 * MaxRows, TRUE,
                [i \in 1..(2 * MaxRows - 1) |-> 0 - 1], "rising", TRUE,
                "falling", "rising")
    ELSE MakeAd(2 * MaxRows, "daily", 2 * MaxRows, TRUE,
                [i \in 1..(2 * MaxRows - 1) |-> 0], "flat", TRUE, "flat", "flat")

BatchAd(i, shape, impressions, numeric) ==
    [ad_id |-> AdIds[i], impressions |-> impressions, data |-> AdRows(shape),
     numeric |-> numeric]

InitBatch ==
    /\ \E n \in 1..MaxBatchAds :
       \E shape \in [1..n -> AdShapes], impressions \in [1..n -> {500, 2000}],
          numeric \in [1..n -> BOOLEAN] :
          batchAds = [i \in 1..n |-> BatchAd(i, shape[i], impressions[i], numeric[i])]
    /\ batchOut = [done |-> FALSE]
    /\ IdleAudit /\ IdlePrio /\ IdleFatigue /\ IdleAudience /\ IdleScore
    /\ IdleBudget /\ IdleMetrics /\ IdleImprove /\ IdleAnalysis /\ IdleCache

AnalyzeBatch ==
    /\ ~batchOut.done
    /\ batchOut' = AdFatigueResults(batchAds)
    /\ UNCHANGED <<batchAds, auditVars, prioVars, fatigueVars, audienceVars, scoreVars,
                   budgetVars, metricVars, improveVars, analysisVars, cacheVars>>

NextBatch == AnalyzeBatch

SpecBatch == InitBatch /\ [][NextBatch]_vars

\* C15: an exception raised while analysing one ad does not abort the
\* batch: every other qualifying ad is still analysed and, when fatigued,
\* reported among the fatigue findings.
C15_RaisingAdIsSkipped ==
    batchOut.done =>
        \A i \in 1..Len(batchAds) :
            (/\ batchAds[i].impressions >= min_impressions
             /\ ~DetectRaises(batchAds[i])
             /\ DetectAdFatigue(batchAds[i].data).is_fatigued)
            => \E j \in 1..Len(batchOut.fatigued_ads) :
                  batchOut.fatigued_ads[j].ad_id = batchAds[i].ad_id

\* the 'creative_optimization' entry of _generate_ai_driven_recommendations
CreativeOptimization ==
    [type |-> "creative_optimization", severity |-> "medium", potential_savings |-> 0]

\* an 'audience_optimization' entry that claims savings
AudienceOptimizationWithSavings ==
    [type |-> "audience_optimization", severity |-> "high", potential_savings |-> 120]

\* the 'audience_optimization' entry
AudienceOptimization ==
    [type |-> "audience_optimization", severity |-> "high", potential_savings |-> 0]

\* the 'campaign_structure_optimization' entry: 15% of the total spend
CampaignStructureOptimization(total_spend) ==
    [type |-> "campaign_structure_optimization", severity |-> "medium",
     potential_savings |-> (total_spend * 15) \div 100]

\* _generate_ai_driven_recommendations: the entries that need
\* campaign_metrics, then one for ads and one for ad sets that have rows;
\* ads['clicks'] or ad_sets['conversions'] on rows without these columns
\* raises KeyError and the except returns []; sorted by severity
AiDrivenRecommendations(processed_data, total_spend) ==
    IF processed_data.ads = "bare" \/ processed_data.ad_sets = "bare" THEN <<>>
    ELSE (IF processed_data.ad_sets = "rows" THEN <<AudienceOptimization>> ELSE <<>>)
         \o (IF "campaign_metrics" \in DOMAIN processed_data
             THEN <<CampaignStructureOptimization(total_spend)>> ELSE <<>>)
         \o (IF processed_data.ads = "rows" THEN <<CreativeOptimization>> ELSE <<>>)

\* EnhancedAdAccountAnalyzer.analyze
Analyze(account_data, platform) ==
    LET processed_data == ProcessData(account_data, platform)
        budget == AnalyzeBudgetEfficiency(processed_data, account_data.findings)
        audience_results ==
            Caught("audience" \in account_data.raising,
                   AudienceTargeting(processed_data, account_data.segmented,
                                     account_data.findings))
        fatigue_results ==
            Caught("fatigue" \in account_data.raising,
                   AnalyzeAdFatigue(processed_data, account_data.findings))
        creative ==
            Caught("creative" \in account_data.raising,
                   AnalyzeCreativePerformance(processed_data, account_data.findings))
        ai_recommendations ==
            AiDrivenRecommendations(processed_data, TotalSpend(account_data))
        recommendations ==
            PrioritizeRecommendations(
                budget.recommendations \o audience_results.recommendations
                  \o fatigue_results.recommendations \o creative.recommendations)
    IN  IF processed_data.raised THEN [raised |-> TRUE]
        ELSE [raised |-> FALSE,
              components_run |-> budget.ran \cup audience_results.ran
                                    \cup fatigue_results.ran \cup creative.ran,
              recommendations |-> recommendations,
              ai_recommendations |-> ai_recommendations,
              potential_savings |->
                  SavingsSum(recommendations) + SavingsSum(ai_recommendations),
              potential_improvement_percentage |->
                  CalculateImprovementPotential(recommendations \o ai_recommendations,
                                                TotalSpend(account_data))]
(***************************************************************************)
(* Spec: one call of run_audit on every small input                        *)
(***************************************************************************)
MaxFindings == 1

Platforms == {"facebook", "tiktok", None}
ClientNames == {None, "", "Test Client"}
KeyValues == {"missing", "number", "empty", "rows"}

FindingLists(universe) == UNION {[1..n -> universe] : n \in 0..MaxFindings}

BudgetFindings ==
    {[type |-> "campaign_budget_inefficiency", severity |-> "high",
      potential_savings |-> 150]}
AudienceFindings ==
    {[type |-> "gender_ctr_optimization", severity |-> "high", potential_savings |-> 40],
     [type |-> "age_ctr_optimization", severity |-> "medium", potential_savings |-> 15]}
FatiguedAds ==
    {[severity |-> "severe", confidence |-> 100],
     [severity |-> "severe", confidence |-> 90]}
CreativeFindings ==
    {[type |-> "top_creative_scaling", severity |-> "low", potential_savings |-> 0],
     [type |-> "bottom_creative_pausing", severity |-> "medium", potential_savings |-> 180]}

NoFindings == [budget |-> <<>>, audience |-> <<>>, fatigued_ads |-> <<>>, creative |-> <<>>]

\* the findings a data set can hold: none without insight rows, budget ones
\* only with campaigns too, audience ones only with a segment column, fatigue
\* ones only with dates
FindingsOf(campaigns, insightsValue, dated, segmented) ==
    IF insightsValue # "rows" THEN {NoFindings}
    ELSE { [budget |-> b, audience |-> a, fatigued_ads |-> f, creative |-> c] :
             b \in IF campaigns = "rows" THEN FindingLists(BudgetFindings) ELSE {<<>>},
             a \in IF segmented THEN FindingLists(AudienceFindings) ELSE {<<>>},
             f \in IF dated THEN FindingLists(FatiguedAds) ELSE {<<>>},
             c \in FindingLists(CreativeFindings) }

\* the summed spend of the insight rows of the inputs
RowsSpend == 10 * 100

NotADict ==
    [kind |-> "not_dict", campaigns |-> "missing", insights |-> "missing",
     dated |-> FALSE, segmented |-> FALSE, findings |-> NoFindings,
     ads |-> "missing", ad_sets |-> "missing", spend |-> 0, raising |-> {}]

(***************************************************************************)
(* SpecAnalyze: one call of EnhancedAdAccountAnalyzer.analyze on account   *)
(* data whose campaigns and insights are lists                             *)
(***************************************************************************)
Components == {"audience", "fatigue", "creative"}

\* the analyses that get as far as their try statement
Proceeding(insightsValue, dated, segmented) ==
    IF insightsValue # "rows" THEN {}
    ELSE {"creative"} \cup (IF dated THEN {"fatigue"} ELSE {})
                      \cup (IF segmented THEN {"audience"} ELSE {})

\* the values under 'ads' and under the ad set key of the platform
AdLevelData ==
    {<<"missing", "missing">>, <<"rows", "rows">>, <<"rows", "missing">>,
     <<"missing", "rows">>, <<"bare", "rows">>, <<"rows", "bare">>}

InitAnalyze ==
    /\ IdleAudit /\ IdlePrio /\ IdleFatigue /\ IdleAudience /\ IdleScore
    /\ IdleBudget /\ IdleMetrics /\ IdleBatch /\ IdleImprove /\ IdleCache
    /\ analysisOut = [done |-> FALSE]
    /\ \E platform \in {"facebook", "tiktok"}, campaigns \in {"empty", "rows"},
          insightsValue \in {"empty", "rows"}, dated \in BOOLEAN,
          segmented \in BOOLEAN, adLevel \in AdLevelData :
          /\ (insightsValue # "rows" => ~dated /\ ~segmented)
          /\ \E findings \in FindingsOf(campaigns, insightsValue, dated, segmented),
                raising \in SUBSET Proceeding(insightsValue, dated, segmented) :
                /\ Cardinality(raising) <= 1
                /\ analysisIn =
                      [made |-> TRUE, platform |-> platform,
                       account_data |->
                           [kind |-> "dict", campaigns |-> campaigns,
                            insights |-> insightsValue, dated |-> dated,
                            segmented |-> segmented, findings |-> findings,
                            ads |-> adLevel[1], ad_sets |-> adLevel[2],
                            spend |-> IF insightsValue = "rows" THEN RowsSpend ELSE 0,
                            raising |-> raising]]

AnalyzeAccount ==
    /\ analysisIn.made /\ ~analysisOut.done
    /\ analysisOut' = [done |-> TRUE,
                       results |-> Analyze(analysisIn.account_data, analysisIn.platform)]
    /\ UNCHANGED <<analysisIn, auditVars, prioVars, fatigueVars, audienceVars,
                   scoreVars, budgetVars, metricVars, batchVars, improveVars,
                   cacheVars>>

NextAnalyze == AnalyzeAccount

SpecAnalyze == InitAnalyze /\ [][NextAnalyze]_vars

\* the recommendation types of each analysis
TypesOf(component) ==
    CASE component = "budget" -> {"campaign_budget_inefficiency"}
      [] component = "audience" -> {"gender_ctr_optimization", "age_ctr_optimization"}
      [] component = "fatigue" -> {"ad_fatigue"}
      [] component = "creative" -> {"top_creative_scaling", "bottom_creative_pausing"}

\* the positions of a list that hold a recommendation of the analysis
PositionsOf(recs, component) ==
    {i \in 1..Len(recs) : recs[i].type \in TypesOf(component)}

\* what the analysis had recommended when it returned or raised
ProducedBy(account_data, component) ==
    CASE component = "budget" -> account_data.findings.budget
      [] component = "audience" -> account_data.findings.audience
      [] component = "fatigue" ->
            [i \in 1..Len(account_data.findings.fatigued_ads) |->
                [type |-> "ad_fatigue",
                 severity |-> account_data.findings.fatigued_ads[i].severity,
                 potential_savings |->
                     EstimateFatigueSavings(account_data.findings.fatigued_ads[i])]]
      [] component = "creative" -> account_data.findings.creative

\* C16: when one analysis (budget, audience, fatigue or creative) cannot
\* proceed or raises, analyze still returns a result, that analysis
\* contributes no recommendation and every recommendation of the remaining
\* analyses is in the returned list.
C16_FailedComponentIsolated ==
    analysisOut.done =>
        /\ ~analysisOut.results.raised
        /\ \A c \in analysisIn.account_data.raising \cup {"budget"} :
              PositionsOf(analysisOut.results.recommendations, c) = {}
        /\ \A c \in Components \ analysisIn.account_data.raising :
              LET produced == ProducedBy(analysisIn.account_data, c)
              IN  /\ Cardinality(PositionsOf(analysisOut.results.recommendations, c))
                        = Len(produced)
                  /\ \A i \in 1..Len(produced) :
                        \E j \in 1..Len(analysisOut.results.recommendations) :
                            LET r == analysisOut.results.recommendations[j]
                            IN  /\ r.type = produced[i].type
                                /\ r.severity = produced[i].severity
                                /\ r.potential_savings = produced[i].potential_savings

\* the fatigue analysis raised after it had found a fatigued ad; the
\* audience and the creative recommendation are returned
C16_Witness ==
    /\ analysisOut.done
    /\ analysisIn.account_data.raising = {"fatigue"}
    /\ analysisIn.account_data.findings.fatigued_ads # <<>>
    /\ analysisIn.account_data.findings.audience # <<>>
    /\ analysisIn.account_data.findings.creative # <<>>
    /\ Len(analysisOut.results.recommendations) = 2
    /\ PositionsOf(analysisOut.results.recommendations, "audience") # {}
    /\ PositionsOf(analysisOut.results.recommendations, "creative") # {}

\* C18: the potential_savings of the analysis result is the sum of
\* potential_savings over exactly the entries of the returned
\* recommendations list.
C18_SavingsIsSumOfRecommendations ==
    (analysisOut.done /\ ~analysisOut.results.raised) =>
        analysisOut.results.potential_savings
            = SavingsSum(analysisOut.results.recommendations)

\* two recommendations with savings next to AI-driven recommendations
C18_Witness ==
    /\ analysisOut.done /\ ~analysisOut.results.raised
    /\ Len(analysisOut.results.ai_recommendations) = 2
    /\ Len(analysisOut.results.recommendations) >= 2
    /\ \A i \in 1..2 : analysisOut.results.recommendations[i].potential_savings > 0
    /\ analysisOut.results.potential_savings
          = analysisOut.results.recommendations[1].potential_savings
              + SavingsSum(Tail(analysisOut.results.recommendations))

Init ==
    /\ IdlePrio /\ IdleFatigue /\ IdleAudience /\ IdleScore
    /\ IdleBudget /\ IdleMetrics /\ IdleBatch /\ IdleImprove /\ IdleAnalysis /\ IdleCache
    /\ pc = "called"
    /\ outcome = [kind |-> "none"]
    /\ cache = {}
    /\ \E platform \in Platforms, client_name \in ClientNames,
          generate_report \in BOOLEAN, cache_results \in BOOLEAN :
          \/ call = [made |-> TRUE, account_data |-> NotADict, platform |-> platform,
                     client_name |-> client_name, generate_report |-> generate_report,
                     cache_results |-> cache_results]
          \/ \E campaigns \in KeyValues, insightsValue \in KeyValues,
                dated \in BOOLEAN, segmented \in BOOLEAN :
                /\ (insightsValue # "rows" => ~dated /\ ~segmented)
                /\ \E findings \in FindingsOf(campaigns, insightsValue, dated, segmented) :
                      call = [made |-> TRUE,
                              account_data |->
                                  [kind |-> "dict", campaigns |-> campaigns,
                                   insights |-> insightsValue, dated |-> dated,
                                   segmented |-> segmented, findings |-> findings,
                                   ads |-> "missing", ad_sets |-> "missing",
                                   spend |-> IF insightsValue = "rows" THEN RowsSpend
                                             ELSE 0,
                                   raising |-> {}],
                              platform |-> platform, client_name |-> client_name,
                              generate_report |-> generate_report,
                              cache_results |-> cache_results]

Failure(client_name, platform) ==
    [kind |-> "returned", success |-> FALSE, has_error |-> TRUE,
     client_name |-> client_name, platform |-> platform,
     components_run |-> {}, recommendations |-> <<>>, has_report |-> FALSE]

\* run_audit from the try statement on, with client_name settled; cached and
\* reported say whether writing the cache file and generating the report
\* went through (both failures are caught and logged)
RunAuditBody(client_name, cached, reported) ==
    IF call.account_data.kind # "dict"
    THEN /\ outcome' = Failure(client_name, call.platform)
         /\ UNCHANGED <<call, cache>>
    ELSE \E account_data \in {ValidateAccountData(call.account_data)} :
         \E analysis_results \in {Analyze(account_data, call.platform)} :
            /\ call' = [call EXCEPT !.account_data = account_data]
            /\ IF analysis_results.raised
               THEN /\ outcome' = Failure(client_name, call.platform)
                    /\ UNCHANGED cache
               ELSE /\ cache' = IF call.cache_results /\ cached
                                THEN cache \cup {<<Sanitize(client_name), call.platform>>}
                                ELSE cache
                    /\ outcome' =
                         [kind |-> "returned", success |-> TRUE, has_error |-> FALSE,
                          client_name |-> client_name, platform |-> call.platform,
                          components_run |-> analysis_results.components_run,
                          recommendations |-> analysis_results.recommendations,
                          has_report |-> call.generate_report /\ reported]

\* run_audit: the default client name is built before the try statement,
\* and platform.capitalize() raises AttributeError on a platform that is
\* not a string
RunAudit ==
    /\ pc = "called"
    /\ IF ~Truthy(call.client_name) /\ call.platform = None
       THEN /\ pc' = "raised"
            /\ outcome' = [kind |-> "raised", exception |-> "AttributeError"]
            /\ UNCHANGED <<call, cache>>
       ELSE /\ pc' = "returned"
            /\ \E cached \in BOOLEAN, reported \in BOOLEAN :
                  RunAuditBody(IF Truthy(call.client_name) THEN call.client_name
                               ELSE DefaultClientName(call.platform),
                               cached, reported)
    /\ UNCHANGED <<prioVars, fatigueVars, audienceVars, scoreVars>>
    /\ UNCHANGED <<budgetVars, metricVars, batchVars, improveVars, analysisVars, cacheVars>>

Next == RunAudit

Spec == Init /\ [][Next]_vars
\* C1: run_audit always returns a result carrying a boolean success, with an
\* error message whenever it failed; no exception reaches the caller.
C1_AlwaysReturnsSuccess ==
    pc # "called" =>
        /\ outcome.kind = "returned"
        /\ outcome.success \in BOOLEAN
        /\ (~outcome.success => outcome.has_error)

\* C2: an audit over non-empty campaigns and insights runs the Budget
\* Efficiency Scorer (BudgetOptimizer.analyze) as well as the fatigue and
\* the audience analysis, and the scorer's recommendations are in the
\* merged list.
C2_AllThreeAnalyzersRun ==
    (/\ pc = "returned" /\ outcome.success
     /\ call.account_data.campaigns = "rows" /\ call.account_data.insights = "rows"
     /\ call.account_data.dated /\ call.account_data.segmented)
    => /\ {"BudgetOptimizer.analyze", "batch_fatigue_analysis",
           "AudienceTargetingAnalyzer.analyze"} \subseteq outcome.components_run
       /\ \A i \in 1..Len(call.account_data.findings.budget) :
             \E j \in 1..Len(outcome.recommendations) :
                 outcome.recommendations[j].type = call.account_data.findings.budget[i].type

\* C3: the recommendations an audit returns are in descending order of
\* priority_score, and every entry carries a priority_score.
C3_SortedByPriorityScore ==
    (pc = "returned" /\ outcome.success) =>
        /\ \A i \in 1..Len(outcome.recommendations) :
              "priority_score" \in DOMAIN outcome.recommendations[i]
        /\ \A i, j \in 1..Len(outcome.recommendations) :
              i < j => outcome.recommendations[i].priority_score
                          >= outcome.recommendations[j].priority_score

\* an audit whose audience finding was merged before its fatigue finding
\* and is returned after it, followed by the creative finding
C3_Witness ==
    /\ pc = "returned" /\ outcome.success
    /\ Len(call.account_data.findings.audience) = 1
    /\ Len(call.account_data.findings.fatigued_ads) = 1
    /\ Len(outcome.recommendations) = 3
    /\ outcome.recommendations[1].type = "ad_fatigue"
    /\ outcome.recommendations[2].type \in {"gender_ctr_optimization", "age_ctr_optimization"}
    /\ outcome.recommendations[1].priority_score > outcome.recommendations[2].priority_score
    /\ outcome.recommendations[2].priority_score > outcome.recommendations[3].priority_score

\* C14: run_audit on a dict that lacks `campaigns` or `insights`, or holds a
\* value that is not a list under either key, replaces that value by an
\* empty collection and completes the audit with success = true.
C14_MissingOrInvalidKeysTolerated ==
    (pc = "returned" /\ call.account_data.kind = "dict")
    => /\ call.account_data.campaigns \in {"empty", "rows"}
       /\ call.account_data.insights \in {"empty", "rows"}
       /\ outcome.success

\* C23: run_audit leaves the caller's account_data mapping unchanged: no
\* key is added and no value is replaced by the call.
C23_AccountDataUnchanged ==
    [][call'.account_data = call.account_data]_vars

(***************************************************************************)
(* The cache: _cache_analysis_results and load_cached_analysis.            *)
(* A file name is kept as its '_'-separated parts, the last one without    *)
(* ".json".  A number of the analysis is [t, v] with t its Python type     *)
(* ("int", "float", "np.int64", "np.float64", "nan", "inf"); a JSON        *)
(* literal is [lit, v] with lit "int", "float", "NaN" or "Infinity".       *)
(***************************************************************************)
days_lookback == 30

\* client_name.replace(' ', '_').lower(), split at '_'
SanitizedParts(client_name) ==
    CASE client_name = "Acme" -> <<"acme">>
      [] client_name = "Acme Facebook" -> <<"acme", "facebook">>
      [] client_name = "Test Client" -> <<"test", "client">>

\* datetime.now().strftime('%Y%m%d'): day 0 is 1 January 2026
DateStr(day) == IF day = 0 THEN "20260101" ELSE "20260201"

\* f"{sanitized_name}_{platform}_{date_str}.json"
CacheFileName(client_name, platform, day) ==
    SanitizedParts(client_name) \o <<platform, DateStr(day)>>

\* json.dump of one number; json_serialize turns the numpy integer into an
\* int, np.float64 is a float already, nan and inf are written as NaN and
\* Infinity
DumpNumber(x) ==
    CASE x.t \in {"int", "np.int64"} -> [lit |-> "int", v |-> x.v]
      [] x.t \in {"float", "np.float64"} -> [lit |-> "float", v |-> x.v]
      [] x.t = "nan" -> [lit |-> "NaN", v |-> 0]
      [] x.t = "inf" -> [lit |-> "Infinity", v |-> 0]

\* json.load of one number
LoadNumber(j) ==
    CASE j.lit = "int" -> [t |-> "int", v |-> j.v]
      [] j.lit = "float" -> [t |-> "float", v |-> j.v]
      [] j.lit = "NaN" -> [t |-> "nan", v |-> 0]
      [] j.lit = "Infinity" -> [t |-> "inf", v |-> 0]

\* json.dump(analysis_results, f, indent=2, default=json_serialize)
JsonDump(analysis) ==
    [platform |-> analysis.platform,
     recommendations |->
        [i \in 1..Len(analysis.recommendations) |->
            [type |-> analysis.recommendations[i].type,
             potential_savings |->
                 DumpNumber(analysis.recommendations[i].potential_savings),
             priority_score |->
                 DumpNumber(analysis.recommendations[i].priority_score)]]]

\* json.load(f)
JsonLoad(text) ==
    [platform |-> text.platform,
     recommendations |->
        [i \in 1..Len(text.recommendations) |->
            [type |-> text.recommendations[i].type,
             potential_savings |->
                 LoadNumber(text.recommendations[i].potential_savings),
             priority_score |->
                 LoadNumber(text.recommendations[i].priority_score)]]]

\* the directory after open(cache_path, 'w') and json.dump: a file of the
\* same name is replaced
WriteCacheFile(files, name, mtime, day, text) ==
    {f \in files : f.name # name}
        \cup {[name |-> name, mtime |-> mtime, day |-> day, text |-> text]}

\* cache_dir.glob(f"{sanitized_name}_*.json"): the name starts with the
\* sanitized name and an underscore
GlobMatches(name, sanitized) ==
    /\ Len(name) > Len(sanitized)
    /\ SubSeq(name, 1, Len(sanitized)) = sanitized

\* f.name.split('_')[1] == platform
PlatformMatches(name, sanitized, platform) == name[2] = platform

\* cache_files after the glob and the platform filter
CandidateFiles(files, client_name, platform) ==
    {f \in files :
        /\ GlobMatches(f.name, SanitizedParts(client_name))
        /\ platform # None =>
              PlatformMatches(f.name, SanitizedParts(client_name), platform)}

\* cache_files.sort(key=st_mtime, reverse=True); cache_files[0]
Newest(files) == CHOOSE f \in files : \A g \in files : g.mtime <= f.mtime

\* load_cached_analysis; lookback is accepted and not looked at
LoadCachedAnalysis(files, client_name, platform, lookback) ==
    IF CandidateFiles(files, client_name, platform) = {}
    THEN [found |-> FALSE]
    ELSE [found |-> TRUE,
          file |-> Newest(CandidateFiles(files, client_name, platform)),
          analysis |->
              JsonLoad(Newest(CandidateFiles(files, client_name, platform)).text)]

(***************************************************************************)
(* SpecCache: up to MaxCachedAudits audits that succeed with               *)
(* cache_results=True, a month that passes, and calls of                   *)
(* load_cached_analysis                                                    *)
(***************************************************************************)
MaxCachedAudits == 2

CacheClients == {"Acme", "Acme Facebook", "Test Client"}
CachePlatforms == {"facebook", "tiktok"}

\* analysis results: their recommendations in priority order, with numpy
\* numbers, a nan and an infinite value among them
CachedAnalyses ==
    {[platform |-> p,
      recommendations |->
        <<[type |-> "bottom_creative_pausing",
           potential_savings |-> [t |-> "np.float64", v |-> 180],
           priority_score |-> [t |-> "float", v |-> 126]],
          [type |-> "age_cpa_optimization",
           potential_savings |-> [t |-> "inf", v |-> 0],
           priority_score |-> [t |-> "float", v |-> 100]],
          [type |-> "gender_cpa_optimization",
           potential_savings |-> x,
           priority_score |-> x]>>] :
        p \in CachePlatforms,
        x \in {[t |-> "nan", v |-> 0], [t |-> "np.int64", v |-> 40]}}

InitCache ==
    /\ cacheFiles = {} /\ cacheLog = <<>> /\ today = 0
    /\ loaded = [done |-> FALSE]
    /\ IdleAudit /\ IdlePrio /\ IdleFatigue /\ IdleAudience /\ IdleScore
    /\ IdleBudget /\ IdleMetrics /\ IdleBatch /\ IdleImprove /\ IdleAnalysis

UnchangedByCache ==
    UNCHANGED <<auditVars, prioVars, fatigueVars, audienceVars, scoreVars,
                budgetVars, metricVars, batchVars, improveVars, analysisVars>>

\* run_audit(..., cache_results=True) that succeeded with analysis_results
CacheAnalysisResults ==
    /\ Len(cacheLog) < MaxCachedAudits
    /\ \E client_name \in CacheClients, analysis \in CachedAnalyses :
          /\ cacheLog' = Append(cacheLog,
                                [client_name |-> client_name,
                                 platform |-> analysis.platform,
                                 day |-> today, analysis |-> analysis])
          /\ cacheFiles' = WriteCacheFile(cacheFiles,
                                          CacheFileName(client_name, analysis.platform,
                                                        today),
                                          Len(cacheLog) + 1, today,
                                          JsonDump(analysis))
    /\ UNCHANGED <<today, loaded>>
    /\ UnchangedByCache

\* more than days_lookback days go by
MonthPasses ==
    /\ today = 0
    /\ today' = days_lookback + 1
    /\ UNCHANGED <<cacheFiles, cacheLog, loaded>>
    /\ UnchangedByCache

LoadCached ==
    /\ \E client_name \in CacheClients, platform \in CachePlatforms \cup {None} :
          loaded' = [done |-> TRUE, client_name |-> client_name,
                     platform |-> platform, days_lookback |-> days_lookback,
                     day |-> today, audits |-> Len(cacheLog),
                     returned |-> LoadCachedAnalysis(cacheFiles, client_name,
                                                     platform, days_lookback)]
    /\ UNCHANGED <<cacheFiles, cacheLog, today>>
    /\ UnchangedByCache

NextCache == CacheAnalysisResults \/ MonthPasses \/ LoadCached

SpecCache == InitCache /\ [][NextCache]_vars

\* two numbers are the same value (nan counts as equal to nan)
SameNumber(a, b) ==
    \/ a.t \in {"int", "float", "np.int64", "np.float64"}
         /\ b.t \in {"int", "float", "np.int64", "np.float64"} /\ a.v = b.v
    \/ a.t = "nan" /\ b.t = "nan"
    \/ a.t = "inf" /\ b.t = "inf"

SameRecommendations(a, b) ==
    /\ Len(a) = Len(b)
    /\ \A i \in 1..Len(a) :
          /\ a[i].type = b[i].type
          /\ SameNumber(a[i].potential_savings, b[i].potential_savings)
          /\ SameNumber(a[i].priority_score, b[i].priority_score)

\* the load asked for the client and platform of the latest cached audit,
\* right after it
LoadedLatestAudit ==
    /\ loaded.done /\ loaded.audits = Len(cacheLog) /\ cacheLog # <<>>
    /\ loaded.client_name = cacheLog[Len(cacheLog)].client_name
    /\ loaded.platform = cacheLog[Len(cacheLog)].platform
    /\ loaded.day = cacheLog[Len(cacheLog)].day

\* C21: after run_audit(account_data, platform=P, client_name=C,
\* cache_results=True) succeeds, load_cached_analysis(C, P) returns an
\* analysis whose recommendations have the order and the numeric values of
\* the returned analysis_results, for every client name (spaces included)
\* and every result (NaN and infinite values included).
C21_CacheRoundTrip ==
    LoadedLatestAudit =>
        /\ loaded.returned.found
        /\ SameRecommendations(loaded.returned.analysis.recommendations,
                               cacheLog[Len(cacheLog)].analysis.recommendations)

\* C22: load_cached_analysis(C, P) only returns an analysis cached by an
\* audit with client name C and platform P, never one of another client
\* (such as one whose name starts with C) or platform.
C22_CacheKeyedByClientAndPlatform ==
    (loaded.done /\ loaded.platform # None /\ loaded.returned.found) =>
        \E i \in 1..Len(cacheLog) :
            /\ i = loaded.returned.file.mtime
            /\ cacheLog[i].client_name = loaded.client_name
            /\ cacheLog[i].platform = loaded.platform

\* C24: load_cached_analysis never returns a cached analysis older than
\* days_lookback days; when the only files of the client are older, it
\* returns None.
C24_NoStaleCachedAnalysis ==
    (loaded.done /\ loaded.returned.found) =>
        loaded.day - loaded.returned.file.day <= loaded.days_lookback
=============================================================================
